---- MODULE Spec2Model ----
(***************************************************************************)
(* Model of the BMAD MCP server's command router (src/src/unified_tool.py) *)
(* and of its secure file reader (src/src/utils/file_reader.py).           *)
(*                                                                         *)
(* A Python str is a sequence of one-character strings; the characters     *)
(* U+00E9 (e acute) and U+00A0 (no-break space) are written by their code  *)
(* point, as is the backtick U+0060.  Python's None is the value None.  A  *)
(* path string is a sequence of components, an absolute one starting with  *)
(* the component "/".                                                      *)
(***************************************************************************)
EXTENDS Integers, Sequences, FiniteSets, TLC

VARIABLES
    agents,       \* UnifiedBMADTool.agents: the rows of agent-manifest.csv
    workflows,    \* UnifiedBMADTool.workflows: the rows of workflow-manifest.csv
    fs,           \* the file tree
    pc,           \* "ready" for a request, or "replied"
    request,      \* the call being served
    result,       \* what the call returned or raised
    opened,       \* the files that the call opened and read
    read_errors   \* the exceptions that read_file raised during the call

vars == <<agents, workflows, fs, pc, request, result, opened, read_errors>>

(***************************************************************************)
(* Bounds of the model.                                                    *)
(***************************************************************************)
MaxCmdLen == 3
MaxPathLen == 3
MaxNames == 3

(***************************************************************************)
(* Characters and strings.                                                 *)
(***************************************************************************)
None == <<"<None>">>


LowerLetters ==
    {"a","b","c","d","e","f","g","h","i","j","k","l","m",
     "n","o","p","q","r","s","t","u","v","w","x","y","z"}

UpperSeq ==
    <<"A","B","C","D","E","F","G","H","I","J","K","L","M",
      "N","O","P","Q","R","S","T","U","V","W","X","Y","Z">>

LowerSeq ==
    <<"a","b","c","d","e","f","g","h","i","j","k","l","m",
      "n","o","p","q","r","s","t","u","v","w","x","y","z">>

Digits == {"0","1","2","3","4","5","6","7","8","9"}

NonAscii == {"U+00E9", "U+00A0"}

\* str.isspace() of one character: what str.strip() and str.split() remove
Whitespace == {" ", "\t", "\n", "\r", "U+00A0"}

\* the characters a command may be typed from
Alphabet == {"a", "A", "1", "-", "*", " ", "\t", ";", "U+00E9", "U+00A0"}

\* the four discovery tokens of execute
LIST_AGENTS == <<"*","l","i","s","t","-","a","g","e","n","t","s">>

LIST_WORKFLOWS == <<"*","l","i","s","t","-","w","o","r","k","f","l","o","w","s">>

LIST_TASKS == <<"*","l","i","s","t","-","t","a","s","k","s">>

HELP == <<"*","h","e","l","p">>

\* the name of the default agent
BMAD_MASTER == <<"b","m","a","d","-","m","a","s","t","e","r">>

\* the short name of the default agent used by test_agent_aliases.py
MASTER == <<"m","a","s","t","e","r">>

\* names at the length limits: 50 letters, 51 letters, and 51 characters
\* that begin with an uppercase letter
Name50 == [i \in 1..50 |-> "a"]

Name51 == [i \in 1..51 |-> "a"]

BadName51 == <<"A">> \o Name50

\* names with a character that is neither a letter, a digit nor a hyphen,
\* and a name with a doubled hyphen; the first is a well-formed name
\* followed by a newline
OddNames ==
    {<<"a", "a", "\n">>, <<"a", "\n", "a">>, <<"a", "_", "a">>, <<"a", ".", "a">>,
     <<"a", "/", "a">>, <<"a", "-", "-", "a">>}

\* the commands of the model: every string of at most MaxCmdLen characters
\* of the alphabet, the discovery tokens (one of them padded), the default
\* agent's name and a misspelling of it
Commands ==
    UNION {[1..n -> Alphabet] : n \in 0..MaxCmdLen}
    \cup {LIST_AGENTS, LIST_WORKFLOWS, LIST_TASKS, HELP, <<" ">> \o HELP \o <<"\t">>,
          BMAD_MASTER, <<"b","m","a","d","-","m","a","s","t","e","r","s">>}
    \cup {<<"a", "a", c>> : c \in {"&", "|", "$", "U+0060", "<", ">", "(", ")"}}
    \cup {<<"*", "*", "U+00E9", "$", "(", "a", " ", "a", ")">>}
    \cup {<<"*", "*", "a", "a">>, <<"*", "*", "a", " ", "a", "a">>}
    \cup {<<"*", "\t", "a", "1">>, <<"*", " ", "a", "1">>}
    \cup {Name50, Name51, BadName51, MASTER} \cup OddNames

LowerChar(c) ==
    IF \E i \in 1..26 : UpperSeq[i] = c
    THEN LowerSeq[CHOOSE i \in 1..26 : UpperSeq[i] = c]
    ELSE c

\* str.lower()
Lower(s) == [i \in 1..Len(s) |-> LowerChar(s[i])]

\* c in s
Contains(s, c) == \E i \in 1..Len(s) : s[i] = c

\* s.startswith(p)
StartsWith(s, p) == Len(s) >= Len(p) /\ SubSeq(s, 1, Len(p)) = p

\* s[n:]
Drop(s, n) == SubSeq(s, n + 1, Len(s))

\* str.isascii()
IsAscii(s) == \A i \in 1..Len(s) : s[i] \notin NonAscii

\* str.strip(): the longest slice without leading or trailing whitespace
Strip(s) ==
    LET keep == {i \in 1..Len(s) : s[i] \notin Whitespace}
    IN  IF keep = {} THEN <<>>
        ELSE SubSeq(s, CHOOSE i \in keep : \A j \in keep : i <= j,
                       CHOOSE i \in keep : \A j \in keep : i >= j)

RECURSIVE Split(_)
\* str.split(): the maximal runs of non-whitespace characters
Split(s) ==
    IF s = <<>> THEN <<>>
    ELSE IF Head(s) \in Whitespace THEN Split(Tail(s))
    ELSE LET stop == {i \in 1..Len(s) : s[i] \in Whitespace}
             n == IF stop = {} THEN Len(s)
                  ELSE (CHOOSE i \in stop : \A j \in stop : i <= j) - 1
         IN  <<SubSeq(s, 1, n)>> \o Split(Drop(s, n))

(***************************************************************************)
(* Module constants of unified_tool.py.                                    *)
(***************************************************************************)
MIN_NAME_LENGTH == 2
MAX_NAME_LENGTH == 50
DANGEROUS_CHARS == <<";", "&", "|", "$", "U+0060", "<", ">", "\n", "\r", "(", ")">>
\* FUZZY_MATCH_THRESHOLD = 0.70, as the fraction ThresholdNum / ThresholdDen
ThresholdNum == 7
ThresholdDen == 10

\* re.match of ^[a-z]+(-[a-z]+)*$ with letters as the class [a-z]:
\* $ also matches before one trailing newline
PatternMatch(name, letters) ==
    LET s == IF Len(name) > 0 /\ name[Len(name)] = "\n"
             THEN SubSeq(name, 1, Len(name) - 1) ELSE name
    IN  /\ Len(s) > 0
        /\ \A i \in 1..Len(s) : s[i] \in letters \cup {"-"}
        /\ s[1] # "-"
        /\ s[Len(s)] # "-"
        /\ \A i \in 1..(Len(s) - 1) : ~(s[i] = "-" /\ s[i + 1] = "-")

AGENT_NAME_PATTERN(name) == PatternMatch(name, LowerLetters)

WORKFLOW_NAME_PATTERN(name) == PatternMatch(name, LowerLetters \cup Digits)

\* ValidationResult.__init__
ValidationResult(valid, error_code, error_message, suggestions, exit_code) ==
    [valid |-> valid, error_code |-> error_code, error_message |-> error_message,
     suggestions |-> suggestions, exit_code |-> exit_code]

Valid == ValidationResult(TRUE, "None", <<>>, <<>>, 0)

\* an error message: the formatter that built it and the values it was given
Message(formatter, args) == <<formatter, args>>

\* dict.get(key, default) of a manifest row
Get(row, key, default) == IF key \in DOMAIN row THEN row[key] ELSE default

(***************************************************************************)
(* difflib.SequenceMatcher(None, a, b).ratio(), no junk, as the fraction   *)
(* <<2 * matches, len(a) + len(b)>>.                                       *)
(***************************************************************************)
\* length of the common run of a and b that starts at a[i], b[j]
RECURSIVE RunLen(_, _, _, _, _, _)
RunLen(a, b, i, j, ahi, bhi) ==
    IF i <= ahi /\ j <= bhi /\ a[i] = b[j]
    THEN 1 + RunLen(a, b, i + 1, j + 1, ahi, bhi)
    ELSE 0

\* SequenceMatcher.find_longest_match on a[alo..ahi], b[blo..bhi] (1-based,
\* inclusive): the longest block, the earliest in a and then the earliest in b
find_longest_match(a, b, alo, ahi, blo, bhi) ==
    LET cand == {<<i, j>> \in (alo..ahi) \X (blo..bhi) : a[i] = b[j]}
        size(p) == RunLen(a, b, p[1], p[2], ahi, bhi)
    IN  IF cand = {} THEN <<alo, blo, 0>>
        ELSE LET best == CHOOSE p \in cand : \A q \in cand :
                            \/ size(p) > size(q)
                            \/ /\ size(p) = size(q)
                               /\ \/ p[1] < q[1]
                                  \/ p[1] = q[1] /\ p[2] <= q[2]
             IN  <<best[1], best[2], size(best)>>

\* SequenceMatcher.get_matching_blocks: total size of the matching blocks
RECURSIVE Matches(_, _, _, _, _, _)
Matches(a, b, alo, ahi, blo, bhi) ==
    IF alo > ahi \/ blo > bhi THEN 0
    ELSE LET m == find_longest_match(a, b, alo, ahi, blo, bhi)
         IN  IF m[3] = 0 THEN 0
             ELSE Matches(a, b, alo, m[1] - 1, blo, m[2] - 1) + m[3]
                  + Matches(a, b, m[1] + m[3], ahi, m[2] + m[3], bhi)

\* SequenceMatcher.ratio: 2.0 * matches / length, 1.0 when both are empty
Ratio(a, b) ==
    IF Len(a) + Len(b) = 0 THEN <<1, 1>>
    ELSE <<2 * Matches(a, b, 1, Len(a), 1, Len(b)), Len(a) + Len(b)>>

\* comparisons of two such fractions
RatioGeq(r, num, den) == r[1] * den >= num * r[2]

RatioGt(r, q) == r[1] * q[2] > q[1] * r[2]

(***************************************************************************)
(* The command router: UnifiedBMADTool of unified_tool.py.  An operator    *)
(* that can raise returns Return(v) or Raise(exception).                   *)
(***************************************************************************)
Return(v) == [raised |-> "None", value |-> v]

Raise(e) == [raised |-> e, value |-> <<>>]

\* UnifiedBMADTool._is_agent_name
_is_agent_name(name) ==
    \E i \in 1..Len(agents) : Get(agents[i], "name", None) = name

\* _is_workflow_name looking the name up in the agent table
_is_workflow_name_in_agents(name) ==
    \E i \in 1..Len(agents) : Get(agents[i], "name", None) = name

\* UnifiedBMADTool._is_workflow_name
_is_workflow_name(name) ==
    \E i \in 1..Len(workflows) : Get(workflows[i], "name", None) = name

\* UnifiedBMADTool._get_agent_names
_get_agent_names == [i \in 1..Len(agents) |-> Get(agents[i], "name", <<>>)]

\* UnifiedBMADTool._get_workflow_names
_get_workflow_names == [i \in 1..Len(workflows) |-> Get(workflows[i], "name", <<>>)]

\* UnifiedBMADTool._check_security
_check_security(command) ==
    LET found_dangerous == SelectSeq(DANGEROUS_CHARS, LAMBDA c : Contains(command, c))
    IN  IF found_dangerous # <<>>
        THEN ValidationResult(FALSE, "INVALID_CHARACTERS",
                 Message("_format_dangerous_chars_error", found_dangerous), <<>>, 1)
        ELSE IF ~IsAscii(command)
        THEN ValidationResult(FALSE, "NON_ASCII_CHARACTERS",
                 Message("_format_non_ascii_error",
                         SelectSeq(command, LAMBDA c : c \in NonAscii)), <<>>, 1)
        ELSE Valid

\* the structural parsing testing for one leading asterisk before two
ParseStructure_single_asterisk_first(command) ==
    LET parts == Split(command)
    IN  IF Contains(command, " ") /\ Len(parts) > 1
        THEN <<"error", ValidationResult(FALSE, "TOO_MANY_ARGUMENTS",
                 Message("_format_too_many_args_error", parts), <<>>, 1)>>
        ELSE IF StartsWith(command, <<"*">>)
        THEN IF Strip(Drop(command, 1)) = <<>>
             THEN <<"error", ValidationResult(FALSE, "MISSING_WORKFLOW_NAME",
                      Message("_format_missing_workflow_name_error", <<>>), <<>>, 1)>>
             ELSE <<"workflow", Strip(Drop(command, 1))>>
        ELSE IF _is_workflow_name(command)
        THEN <<"error", ValidationResult(FALSE, "MISSING_ASTERISK",
                 Message("_format_missing_asterisk_error", <<command>>),
                 <<<<"*">> \o command>>, 1)>>
        ELSE <<"agent", command>>

\* the structural parsing counting the arguments only of a command without
\* a leading asterisk
ParseStructure_asterisk_first(command) ==
    LET parts == Split(command)
    IN  IF StartsWith(command, <<"*", "*">>)
        THEN <<"error", ValidationResult(FALSE, "INVALID_ASTERISK_COUNT",
                 Message("_format_double_asterisk_error", <<Drop(command, 2)>>),
                 <<<<"*">> \o Drop(command, 2)>>, 1)>>
        ELSE IF StartsWith(command, <<"*">>)
        THEN IF Strip(Drop(command, 1)) = <<>>
             THEN <<"error", ValidationResult(FALSE, "MISSING_WORKFLOW_NAME",
                      Message("_format_missing_workflow_name_error", <<>>), <<>>, 1)>>
             ELSE <<"workflow", Strip(Drop(command, 1))>>
        ELSE IF Contains(command, " ") /\ Len(parts) > 1
        THEN <<"error", ValidationResult(FALSE, "TOO_MANY_ARGUMENTS",
                 Message("_format_too_many_args_error", parts), <<>>, 1)>>
        ELSE IF _is_workflow_name(command)
        THEN <<"error", ValidationResult(FALSE, "MISSING_ASTERISK",
                 Message("_format_missing_asterisk_error", <<command>>),
                 <<<<"*">> \o command>>, 1)>>
        ELSE <<"agent", command>>

\* the branches of _parse_command that follow the security check
ParseStructure(command) ==
    LET parts == Split(command)
    IN  IF Contains(command, " ") /\ Len(parts) > 1
        THEN <<"error", ValidationResult(FALSE, "TOO_MANY_ARGUMENTS",
                 Message("_format_too_many_args_error", parts), <<>>, 1)>>
        ELSE IF StartsWith(command, <<"*", "*">>)
        THEN <<"error", ValidationResult(FALSE, "INVALID_ASTERISK_COUNT",
                 Message("_format_double_asterisk_error", <<Drop(command, 2)>>),
                 <<<<"*">> \o Drop(command, 2)>>, 1)>>
        ELSE IF StartsWith(command, <<"*">>)
        THEN IF Strip(Drop(command, 1)) = <<>>
             THEN <<"error", ValidationResult(FALSE, "MISSING_WORKFLOW_NAME",
                      Message("_format_missing_workflow_name_error", <<>>), <<>>, 1)>>
             ELSE <<"workflow", Strip(Drop(command, 1))>>
        ELSE IF _is_workflow_name(command)
        THEN <<"error", ValidationResult(FALSE, "MISSING_ASTERISK",
                 Message("_format_missing_asterisk_error", <<command>>),
                 <<<<"*">> \o command>>, 1)>>
        ELSE <<"agent", command>>

\* _parse_command making the security check only on what the structural
\* parsing took for a name
_parse_command_security_last(command) ==
    LET parsed == ParseStructure(command)
    IN  IF parsed[1] # "error" /\ ~_check_security(parsed[2]).valid
        THEN <<"error", _check_security(parsed[2])>>
        ELSE parsed

\* _parse_command trying the agent table before the workflow table
_parse_command_agent_first(command) ==
    IF ~_check_security(command).valid THEN <<"error", _check_security(command)>>
    ELSE IF ~StartsWith(command, <<"*">>) /\ ~Contains(command, " ")
            /\ _is_agent_name(command)
    THEN <<"agent", command>>
    ELSE ParseStructure(command)

\* UnifiedBMADTool._parse_command: <<command_type, name or ValidationResult>>
_parse_command(command) ==
    LET validation == _check_security(command)
    IN  IF ~validation.valid THEN <<"error", validation>>
        ELSE ParseStructure(command)

RECURSIVE CaseScan(_, _, _)
\* the loop of _check_case_mismatch from valid_names[i] on
CaseScan(name, valid_names, i) ==
    IF i > Len(valid_names) THEN Return(None)
    ELSE IF valid_names[i] = None THEN Raise("AttributeError")
    ELSE IF Lower(valid_names[i]) = Lower(name) /\ valid_names[i] # name
    THEN Return(valid_names[i])
    ELSE CaseScan(name, valid_names, i + 1)

\* UnifiedBMADTool._check_case_mismatch
_check_case_mismatch(name, valid_names) == CaseScan(name, valid_names, 1)

RECURSIVE ClosestScan_last_wins(_, _, _, _, _)
\* the loop of _find_closest_match replacing the best match also by a
\* candidate of the same ratio
ClosestScan_last_wins(input_name, valid_names, i, best_match, best_score) ==
    IF i > Len(valid_names) THEN Return(best_match)
    ELSE IF valid_names[i] = None THEN Raise("AttributeError")
    ELSE LET ratio == Ratio(Lower(input_name), Lower(valid_names[i]))
         IN  IF RatioGeq(ratio, ThresholdNum, ThresholdDen) /\ RatioGeq(ratio, best_score[1], best_score[2])
             THEN ClosestScan_last_wins(input_name, valid_names, i + 1, valid_names[i], ratio)
             ELSE ClosestScan_last_wins(input_name, valid_names, i + 1, best_match, best_score)

RECURSIVE ClosestScan(_, _, _, _, _)
\* the loop of _find_closest_match from valid_names[i] on
ClosestScan(input_name, valid_names, i, best_match, best_score) ==
    IF i > Len(valid_names) THEN Return(best_match)
    ELSE IF valid_names[i] = None THEN Raise("AttributeError")
    ELSE LET ratio == Ratio(Lower(input_name), Lower(valid_names[i]))
         IN  IF RatioGeq(ratio, ThresholdNum, ThresholdDen) /\ RatioGt(ratio, best_score)
             THEN ClosestScan(input_name, valid_names, i + 1, valid_names[i], ratio)
             ELSE ClosestScan(input_name, valid_names, i + 1, best_match, best_score)

\* UnifiedBMADTool._find_closest_match
_find_closest_match(input_name, valid_names) ==
    ClosestScan(input_name, valid_names, 1, None, <<0, 1>>)

\* bool(x) of an Optional[str]
Truthy(x) == x # None /\ x # <<>>

\* the existence validation of _validate_name for a workflow
ValidateWorkflowExists(name) ==
    IF _is_workflow_name(name) THEN Return(Valid)
    ELSE LET suggestion == _find_closest_match(name, _get_workflow_names)
         IN  IF suggestion.raised # "None" THEN suggestion
             ELSE Return(ValidationResult(FALSE, "UNKNOWN_WORKFLOW",
                      Message("_format_unknown_workflow_error", <<name, suggestion.value>>),
                      IF Truthy(suggestion.value) THEN <<suggestion.value>> ELSE <<>>, 1))

\* the existence validation of _validate_name for an agent
ValidateAgentExists(name) ==
    IF _is_agent_name(name) THEN Return(Valid)
    ELSE LET case_match == _check_case_mismatch(name, _get_agent_names)
             suggestion == _find_closest_match(name, _get_agent_names)
         IN  IF case_match.raised # "None" THEN case_match
             ELSE IF Truthy(case_match.value)
             THEN Return(ValidationResult(FALSE, "CASE_MISMATCH",
                      Message("_format_case_mismatch_error", <<name, case_match.value>>),
                      <<case_match.value>>, 1))
             ELSE IF suggestion.raised # "None" THEN suggestion
             ELSE Return(ValidationResult(FALSE, "UNKNOWN_AGENT",
                      Message("_format_unknown_agent_error", <<name, suggestion.value>>),
                      IF Truthy(suggestion.value) THEN <<suggestion.value>> ELSE <<>>, 1))

\* _validate_name taking MAX_NAME_LENGTH for the first length that is too long
_validate_name_max_exclusive(name, command_type) ==
    IF Len(name) < MIN_NAME_LENGTH
    THEN Return(ValidationResult(FALSE, "NAME_TOO_SHORT",
             Message("_format_name_too_short_error", <<name, command_type>>), <<>>, 1))
    ELSE IF Len(name) >= MAX_NAME_LENGTH
    THEN Return(ValidationResult(FALSE, "NAME_TOO_LONG",
             Message("_format_name_too_long_error", <<name, Len(name)>>), <<>>, 1))
    ELSE IF ~(IF command_type = "workflow" THEN WORKFLOW_NAME_PATTERN(name)
              ELSE AGENT_NAME_PATTERN(name))
    THEN Return(ValidationResult(FALSE, "INVALID_NAME_FORMAT",
             Message("_format_invalid_format_error", <<name, command_type>>), <<>>, 1))
    ELSE IF command_type = "workflow" THEN ValidateWorkflowExists(name)
    ELSE ValidateAgentExists(name)

\* UnifiedBMADTool._validate_name
_validate_name(name, command_type) ==
    IF Len(name) < MIN_NAME_LENGTH
    THEN Return(ValidationResult(FALSE, "NAME_TOO_SHORT",
             Message("_format_name_too_short_error", <<name, command_type>>), <<>>, 1))
    ELSE IF Len(name) > MAX_NAME_LENGTH
    THEN Return(ValidationResult(FALSE, "NAME_TOO_LONG",
             Message("_format_name_too_long_error", <<name, Len(name)>>), <<>>, 1))
    ELSE IF ~(IF command_type = "workflow" THEN WORKFLOW_NAME_PATTERN(name)
              ELSE AGENT_NAME_PATTERN(name))
    THEN Return(ValidationResult(FALSE, "INVALID_NAME_FORMAT",
             Message("_format_invalid_format_error", <<name, command_type>>), <<>>, 1))
    ELSE IF command_type = "workflow" THEN ValidateWorkflowExists(name)
    ELSE ValidateAgentExists(name)

\* UnifiedBMADTool._format_error_response
_format_error_response(validation) ==
    [success |-> FALSE, error_code |-> validation.error_code,
     error |-> validation.error_message, suggestions |-> validation.suggestions,
     exit_code |-> validation.exit_code]

(***************************************************************************)
(* The file tree and the secure file reader: FileReader of file_reader.py. *)
(* fs maps the absolute path of each node to its kind ("dir", "file",      *)
(* "link" or "none") and, for a symbolic link, its target.                 *)
(***************************************************************************)
\* FileReader.bmad_root, canonical since __init__ resolved it
BMAD_ROOT == <<"/", "srv">>

Node(kind, target) == [kind |-> kind, target |-> target]

\* os.lstat of an absolute path
Lstat(tree, path) == IF path \in DOMAIN tree THEN tree[path].kind ELSE "none"

\* posixpath.split(path)[0] of an absolute path
Parent(path) == IF Len(path) <= 1 THEN path ELSE SubSeq(path, 1, Len(path) - 1)

\* pathlib.Path(file_path): the "." components are dropped
PathParse(file_path) == SelectSeq(file_path, LAMBDA c : c # ".")

\* Path.is_absolute
IsAbsolute(path) == path # <<>> /\ Head(path) = "/"

RECURSIVE JoinRealPath(_, _, _, _)
\* posixpath._joinrealpath(path, rest, strict=False, seen): seen holds the
\* links being resolved; ok is FALSE when a symlink loop was met
JoinRealPath(tree, path, rest, seen) ==
    IF rest = <<>> THEN [path |-> path, ok |-> TRUE]
    ELSE IF Head(rest) = "/" THEN JoinRealPath(tree, <<"/">>, Tail(rest), seen)
    ELSE IF Head(rest) = "." THEN JoinRealPath(tree, path, Tail(rest), seen)
    ELSE IF Head(rest) = ".." THEN JoinRealPath(tree, Parent(path), Tail(rest), seen)
    ELSE LET newpath == Append(path, Head(rest))
         IN  IF Lstat(tree, newpath) # "link"
             THEN JoinRealPath(tree, newpath, Tail(rest), seen)
             ELSE IF newpath \in seen
             THEN [path |-> newpath \o Tail(rest), ok |-> FALSE]
             ELSE LET sub == JoinRealPath(tree, path, tree[newpath].target,
                                          seen \cup {newpath})
                  IN  IF ~sub.ok
                      THEN [path |-> sub.path \o Tail(rest), ok |-> FALSE]
                      ELSE JoinRealPath(tree, sub.path, Tail(rest), seen)

RECURSIVE NormPath(_)
\* posixpath.abspath of an absolute path: "." and ".." are collapsed by name
NormPath(path) ==
    IF Len(path) <= 1 THEN path
    ELSE LET front == NormPath(SubSeq(path, 1, Len(path) - 1))
             last == path[Len(path)]
         IN  IF last = "." THEN front
             ELSE IF last = ".." THEN Parent(front)
             ELSE Append(front, last)

RECURSIVE KernelWalk(_, _, _, _)
\* the path lookup that stat() and open() make: every link is followed,
\* a missing component, a file used as a directory and a loop are errors
KernelWalk(tree, path, rest, seen) ==
    IF rest = <<>> THEN [err |-> "None", path |-> path]
    ELSE IF Head(rest) = "/" THEN KernelWalk(tree, <<"/">>, Tail(rest), seen)
    ELSE IF Lstat(tree, path) # "dir" THEN [err |-> "ENOTDIR", path |-> path]
    ELSE IF Head(rest) = "." THEN KernelWalk(tree, path, Tail(rest), seen)
    ELSE IF Head(rest) = ".." THEN KernelWalk(tree, Parent(path), Tail(rest), seen)
    ELSE LET newpath == Append(path, Head(rest))
         IN  IF Lstat(tree, newpath) = "none" THEN [err |-> "ENOENT", path |-> newpath]
             ELSE IF Lstat(tree, newpath) # "link"
             THEN KernelWalk(tree, newpath, Tail(rest), seen)
             ELSE IF newpath \in seen THEN [err |-> "ELOOP", path |-> newpath]
             ELSE LET sub == KernelWalk(tree, path, tree[newpath].target,
                                        seen \cup {newpath})
                  IN  IF sub.err # "None" THEN sub
                      ELSE KernelWalk(tree, sub.path, Tail(rest), seen)

\* Path.resolve(): posixpath.realpath (after a symlink loop the rest of the
\* path is only collapsed by name), then the stat() that raises RuntimeError
\* when the result still runs into the loop
Resolve(tree, path) ==
    LET r == JoinRealPath(tree, <<"/">>, path, {})
        p == NormPath(r.path)
    IN  IF KernelWalk(tree, <<"/">>, p, {}).err = "ELOOP" THEN Raise("RuntimeError")
        ELSE Return(p)

\* FileReader._resolve_path
_resolve_path(tree, file_path) ==
    LET path == PathParse(file_path)
    IN  Resolve(tree, IF IsAbsolute(path) THEN path ELSE BMAD_ROOT \o path)

\* Path.relative_to(bmad_root) does not raise ValueError
IsRelativeTo(path, root) ==
    Len(path) >= Len(root) /\ SubSeq(path, 1, Len(root)) = root

\* FileReader._validate_path
_validate_path(resolved_path) ==
    IF IsRelativeTo(resolved_path, BMAD_ROOT) THEN Return(resolved_path)
    ELSE Raise("PathTraversalError")

\* open(path).read(): the kernel follows the links of the tree as it is now
Open(tree, path) ==
    LET r == KernelWalk(tree, <<"/">>, path, {})
    IN  IF r.err # "None" THEN [exc |-> "OSError", file |-> <<>>]
        ELSE IF Lstat(tree, r.path) = "file" THEN [exc |-> "None", file |-> r.path]
        ELSE [exc |-> "IsADirectoryError", file |-> <<>>]

\* the outcome of a read: the exception raised, the file whose content was
\* returned, and the files that were opened
ReadOutcome(exc, file, opens) == [exc |-> exc, file |-> file, opens |-> opens]

\* the body of read_file after the path is resolved and validated: every
\* exception of open() becomes FileReadError
ReadResolved(tree, resolved_path) ==
    LET o == Open(tree, resolved_path)
    IN  IF o.exc = "None" THEN ReadOutcome("None", o.file, {o.file})
        ELSE ReadOutcome("FileReadError", <<>>, {})

\* FileReader.read_file from the outcome of _resolve_path on
ReadChecked(tree, resolved) ==
    IF resolved.raised # "None" THEN ReadOutcome(resolved.raised, <<>>, {})
    ELSE IF _validate_path(resolved.value).raised # "None"
    THEN ReadOutcome(_validate_path(resolved.value).raised, <<>>, {})
    ELSE ReadResolved(tree, resolved.value)

\* resolved_path.exists() and resolved_path.is_file(): stat() follows the
\* links, and its errors are taken for "does not exist"
IsExistingFile(tree, path) ==
    /\ KernelWalk(tree, <<"/">>, path, {}).err = "None"
    /\ Lstat(tree, KernelWalk(tree, <<"/">>, path, {}).path) = "file"

\* FileReader.file_exists from the outcome of _resolve_path on: only
\* PathTraversalError and FileReadError are caught
ExistsChecked(tree, resolved) ==
    IF resolved.raised \in {"PathTraversalError", "FileReadError"} THEN Return(FALSE)
    ELSE IF resolved.raised # "None" THEN Raise(resolved.raised)
    ELSE IF _validate_path(resolved.value).raised # "None" THEN Return(FALSE)
    ELSE Return(IsExistingFile(tree, resolved.value))

\* FileReader.file_exists
file_exists(tree, file_path) == ExistsChecked(tree, _resolve_path(tree, file_path))

\* FileReader.read_file
read_file(tree, file_path) == ReadChecked(tree, _resolve_path(tree, file_path))

(***************************************************************************)
(* The response assembler of unified_tool.py.  A handler returns its       *)
(* result dict and the files it opened.                                    *)
(***************************************************************************)
Handled(out, opens, errors) == [out |-> out, opens |-> opens, errors |-> errors]

\* a handler that reads no file through the file reader
Answer(out) == Handled(out, {}, {})

\* one document of a payload: its text (the content of a file, after
\* _resolve_workflow_placeholders), an inline notice made from an exception,
\* or nothing
Part(kind, file, exc) == [kind |-> kind, file |-> file, exc |-> exc]

\* try: r = read_file(path) ... except Exception as e: an inline notice
ReadOrNotice(r) ==
    IF r.exc = "None" THEN Part("content", r.file, "None")
    ELSE Part("notice", <<>>, r.exc)

\* try: r = read_file(path) ... except: pass
ReadOrNothing(r) ==
    IF r.exc = "None" THEN Part("content", r.file, "None")
    ELSE Part("none", <<>>, "None")

\* the files opened and the exceptions raised by a sequence of reads
Opens(reads) == UNION {reads[k].opens : k \in 1..Len(reads)}

Errors(reads) == {reads[k].exc : k \in 1..Len(reads)} \ {"None"}

\* the last component of f"bmad/_cfg/agents/{module}-{agent_name}.customize.yaml"
\* (every name that no tree of the model holds is "other.customize.yaml")
CustomizeFile(module, agent_name) ==
    IF module = <<"bmm">> /\ agent_name = <<"a", "a">>
    THEN "bmm-aa.customize.yaml"
    ELSE IF module = <<"core">> /\ agent_name = BMAD_MASTER
    THEN "core-bmad-master.customize.yaml"
    ELSE "other.customize.yaml"

\* pathlib.Path(path).parent
PathParent(path) ==
    IF path = <<>> \/ path = <<"/">> THEN path ELSE SubSeq(path, 1, Len(path) - 1)

\* next((row for row in rows if row.get('name') == name), None), as an index
FindRow(rows, name) ==
    LET hits == {i \in 1..Len(rows) : Get(rows[i], "name", None) = name}
    IN  IF hits = {} THEN 0 ELSE CHOOSE i \in hits : \A j \in hits : i <= j

\* _load_agent once the two documents are read: definition is the read of
\* the agent file (no read when the row has no path), customization the
\* read of the customization file
AgentResult(agent_name, agent, definition, customization) ==
    Handled([success |-> TRUE, type |-> "agent", agent_name |-> agent_name,
             display_name |-> Get(agent, "displayName", agent_name),
             content |-> [definition |-> IF definition = <<>>
                                         THEN Part("none", <<>>, "None")
                                         ELSE ReadOrNotice(definition[1]),
                          customization |-> ReadOrNotice(customization)],
             exit_code |-> 0],
            Opens(definition \o <<customization>>),
            Errors(definition \o <<customization>>))

\* _load_agent for the row found in the manifest
LoadAgentRow(agent_name, agent) ==
    AgentResult(agent_name, agent,
                IF Truthy(Get(agent, "path", <<>>))
                THEN <<read_file(fs, Get(agent, "path", <<>>))>> ELSE <<>>,
                read_file(fs, <<"bmad", "_cfg", "agents",
                                CustomizeFile(Get(agent, "module", <<"bmm">>),
                                              agent_name)>>))

\* UnifiedBMADTool._load_agent
_load_agent(agent_name) ==
    IF FindRow(agents, agent_name) = 0
    THEN Answer([success |-> FALSE,
                 error |-> Message("Agent not found in manifest", <<agent_name>>),
                 exit_code |-> 2])
    ELSE LoadAgentRow(agent_name, agents[FindRow(agents, agent_name)])

\* _execute_workflow once the documents are read: reads is empty when the
\* row has no path, and else holds the read of workflow.yaml and the read of
\* the instructions
WorkflowResult(workflow, reads) ==
    Handled([success |-> TRUE, type |-> "workflow",
             name |-> Get(workflow, "name", None),
             module |-> Get(workflow, "module", None),
             path |-> Get(workflow, "path", <<>>),
             workflow_yaml |-> IF reads = <<>> THEN Part("none", <<>>, "None")
                               ELSE ReadOrNotice(reads[1]),
             instructions |-> IF reads = <<>> THEN Part("none", <<>>, "None")
                              ELSE ReadOrNothing(reads[2]),
             context |-> [agent_manifest_data |-> agents,
                          agent_count |-> Len(agents)],
             exit_code |-> 0],
            Opens(reads), Errors(reads))

\* _execute_workflow for the row found in the manifest
ExecuteWorkflowRow(workflow, workflow_path) ==
    WorkflowResult(workflow,
                   IF Truthy(workflow_path)
                   THEN <<read_file(fs, workflow_path),
                          read_file(fs, PathParent(PathParse(workflow_path))
                                        \o <<"instructions.md">>)>>
                   ELSE <<>>)

\* UnifiedBMADTool._execute_workflow
_execute_workflow(workflow_name) ==
    IF FindRow(workflows, workflow_name) = 0
    THEN Answer([success |-> FALSE,
                 error |-> Message("Workflow not found in manifest", <<workflow_name>>),
                 exit_code |-> 2])
    ELSE ExecuteWorkflowRow(workflows[FindRow(workflows, workflow_name)],
                            Get(workflows[FindRow(workflows, workflow_name)],
                                "path", <<>>))

\* UnifiedBMADTool._list_agents
_list_agents ==
    Answer([success |-> TRUE, type |-> "list", list_type |-> "agents",
             count |-> Len(agents),
             content |-> [i \in 1..Len(agents) |-> Get(agents[i], "name", <<"unknown">>)],
             exit_code |-> 0])

\* UnifiedBMADTool._list_workflows
_list_workflows ==
    Answer([success |-> TRUE, type |-> "list", list_type |-> "workflows",
             count |-> Len(workflows),
             content |-> [i \in 1..Len(workflows) |->
                             Get(workflows[i], "name", <<"unknown">>)],
             exit_code |-> 0])

\* bmad_root / "_cfg" / "task-manifest.csv"
TASK_MANIFEST == BMAD_ROOT \o <<"_cfg", "task-manifest.csv">>

\* UnifiedBMADTool._list_tasks: the task manifest is opened directly; the
\* listing is made of its rows, or is empty when it cannot be read
_list_tasks ==
    LET o == Open(fs, TASK_MANIFEST)
    IN  Handled([success |-> TRUE, type |-> "list", list_type |-> "tasks",
                 content |-> Part(IF o.exc = "None" THEN "content" ELSE "none",
                                  o.file, "None"),
                 exit_code |-> 0],
                IF o.exc = "None" THEN {o.file} ELSE {}, {})

\* UnifiedBMADTool._help
_help ==
    Answer([success |-> TRUE, type |-> "help",
             content |-> [agents |-> Len(agents), workflows |-> Len(workflows)],
             exit_code |-> 0])

\* execute routing a name that failed only the existence check
RouteValidated_unknown_routed(command_type, name, validation) ==
    IF validation.raised # "None" THEN Answer([raised |-> validation.raised])
    ELSE IF ~validation.value.valid
            /\ validation.value.error_code \notin {"UNKNOWN_AGENT", "UNKNOWN_WORKFLOW"}
    THEN Answer(_format_error_response(validation.value))
    ELSE IF command_type = "workflow" THEN _execute_workflow(name)
    ELSE _load_agent(name)

\* UnifiedBMADTool.execute from the return of _validate_name on
RouteValidated(command_type, name, validation) ==
    IF validation.raised # "None" THEN Answer([raised |-> validation.raised])
    ELSE IF ~validation.value.valid
    THEN Answer(_format_error_response(validation.value))
    ELSE IF command_type = "workflow" THEN _execute_workflow(name)
    ELSE _load_agent(name)

\* UnifiedBMADTool.execute from the return of _parse_command on
RouteParsed(parsed) ==
    IF parsed[1] = "error" THEN Answer(_format_error_response(parsed[2]))
    ELSE RouteValidated(parsed[1], parsed[2], _validate_name(parsed[2], parsed[1]))

\* UnifiedBMADTool.execute from the call of _parse_command on
Route(normalized) == RouteParsed(_parse_command(normalized))

\* execute testing the raw command, not the trimmed one, for emptiness
execute_untrimmed_test(command) ==
    LET normalized == Strip(command)
    IN  IF command = <<>> THEN _load_agent(BMAD_MASTER)
        ELSE IF normalized = LIST_AGENTS THEN _list_agents
        ELSE IF normalized = LIST_WORKFLOWS THEN _list_workflows
        ELSE IF normalized = LIST_TASKS THEN _list_tasks
        ELSE IF normalized = HELP THEN _help
        ELSE Route(normalized)

\* execute looking the name up in the workflow table before it tests the
\* discovery tokens
execute_catalog_first(command) ==
    LET normalized == Strip(command)
    IN  IF normalized = <<>> THEN _load_agent(BMAD_MASTER)
        ELSE IF normalized[1] = "*" /\ _is_workflow_name(Drop(normalized, 1))
        THEN Route(normalized)
        ELSE IF normalized = LIST_AGENTS THEN _list_agents
        ELSE IF normalized = LIST_WORKFLOWS THEN _list_workflows
        ELSE IF normalized = LIST_TASKS THEN _list_tasks
        ELSE IF normalized = HELP THEN _help
        ELSE Route(normalized)

\* UnifiedBMADTool.execute
execute(command) ==
    LET normalized == Strip(command)
    IN  IF normalized = <<>> THEN _load_agent(BMAD_MASTER)
        ELSE IF normalized = LIST_AGENTS THEN _list_agents
        ELSE IF normalized = LIST_WORKFLOWS THEN _list_workflows
        ELSE IF normalized = LIST_TASKS THEN _list_tasks
        ELSE IF normalized = HELP THEN _help
        ELSE Route(normalized)

(***************************************************************************)
(* The worlds of the model: the file trees and the catalogs that the       *)
(* manifest loader can hand to the router.                                 *)
(***************************************************************************)
\* the targets of the symbolic link <root>/link
LinkTargets ==
    {<<"docs">>, <<"/", "etc">>, <<"..", "etc", "passwd">>, <<"link">>,
     <<"/", "srv", "docs", "a.md">>}

\* a file tree: the link's target, and whether the companion documents
\* (instructions.md, the customization files) exist
Tree(target, companion) ==
    (<<"/">> :> Node("dir", <<>>))
    @@ (<<"/", "srv">> :> Node("dir", <<>>))
    @@ (<<"/", "srv", "docs">> :> Node("dir", <<>>))
    @@ (<<"/", "srv", "docs", "a.md">> :> Node("file", <<>>))
    @@ (<<"/", "srv", "docs", "w.yaml">> :> Node("file", <<>>))
    @@ (<<"/", "srv", "docs", "instructions.md">> :> Node(companion, <<>>))
    @@ (<<"/", "srv", "bmad">> :> Node("dir", <<>>))
    @@ (<<"/", "srv", "bmad", "_cfg">> :> Node("dir", <<>>))
    @@ (<<"/", "srv", "bmad", "_cfg", "agents">> :> Node("dir", <<>>))
    @@ (<<"/", "srv", "bmad", "_cfg", "agents", "bmm-aa.customize.yaml">>
            :> Node(companion, <<>>))
    @@ (<<"/", "srv", "bmad", "_cfg", "agents", "core-bmad-master.customize.yaml">>
            :> Node("link", <<"/", "etc", "passwd">>))
    @@ (<<"/", "srv", "_cfg">> :> Node("dir", <<>>))
    @@ (<<"/", "srv", "_cfg", "task-manifest.csv">> :> Node("file", <<>>))
    @@ (<<"/", "srv", "link">> :> Node("link", target))
    @@ (<<"/", "srv", "out">> :> Node("link", <<"/", "etc", "passwd">>))
    @@ (<<"/", "etc">> :> Node("dir", <<>>))
    @@ (<<"/", "etc", "passwd">> :> Node("file", <<>>))

FileTrees == {Tree(t, c) : t \in LinkTargets, c \in {"file", "none"}}

\* the components a path given to read_file is made of
PathComponents ==
    {"/", ".", "..", "srv", "docs", "a.md", "link", "out", "etc", "passwd"}

\* the path strings of the model: "/" only leads
Paths ==
    {p \in UNION {[1..n -> PathComponents] : n \in 0..MaxPathLen} :
        \A i \in 2..Len(p) : p[i] # "/"}

\* a row of agent-manifest.csv
AgentRow(name, module, path) ==
    [name |-> name, displayName |-> <<"Mary">>, module |-> module, path |-> path]

\* a row of workflow-manifest.csv
WorkflowRow(name, path) ==
    [name |-> name, description |-> <<"d">>, module |-> <<"core">>, path |-> path]

Catalog(a, w) == [agents |-> a, workflows |-> w]

\* no manifest, or manifests without rows
EmptyCatalog == Catalog(<<>>, <<>>)

\* well-formed names, documents inside the root
PlainCatalog ==
    Catalog(<<AgentRow(BMAD_MASTER, <<"core">>, <<"docs", "a.md">>),
              AgentRow(<<"a", "a">>, <<"bmm">>, <<"docs", "a.md">>),
              AgentRow(<<"a", "-", "a">>, <<"bmm">>, <<>>)>>,
            <<WorkflowRow(<<"a", "1">>, <<"docs", "w.yaml">>),
              WorkflowRow(<<"a", "a", "a">>, <<"link", "w.yaml">>)>>)

\* well-formed names, rows whose paths leave the root or pass through the
\* link; the name aa is both an agent and a workflow
EscapingCatalog ==
    Catalog(<<AgentRow(BMAD_MASTER, <<"core">>, <<"..", "etc", "passwd">>),
              AgentRow(<<"a", "a">>, <<"bmm">>, <<"link", "passwd">>),
              AgentRow(<<"a", "-", "a">>, <<"bmm">>, <<"link", "..", "out">>)>>,
            <<WorkflowRow(<<"a", "a">>, <<"link", "passwd">>),
              WorkflowRow(<<"a", "1">>, <<"/", "etc", "passwd">>),
              WorkflowRow(<<"1", "a">>, <<"link", "a.md">>)>>)

\* names that the loader accepts and the validator does not: an uppercase
\* letter, one character, a digit in an agent name, a blank name, a doubled
\* hyphen, a space, a dangerous character
OddCatalog ==
    Catalog(<<AgentRow(<<"A", "a">>, <<"bmm">>, <<"docs", "a.md">>),
              AgentRow(<<"a">>, <<"bmm">>, <<"docs", "a.md">>),
              AgentRow(<<"a", "1">>, <<"bmm">>, <<"docs", "a.md">>),
              AgentRow(<<>>, <<"bmm">>, <<"docs", "a.md">>),
              AgentRow(<<"a", "-", "-", "a">>, <<"bmm">>, <<"docs", "a.md">>)>>,
            <<WorkflowRow(<<"a", " ", "a">>, <<"docs", "w.yaml">>),
              WorkflowRow(<<"a", ";">>, <<"docs", "w.yaml">>),
              WorkflowRow(<<"A", "a">>, <<"docs", "w.yaml">>),
              WorkflowRow(<<"-", "a">>, <<"docs", "w.yaml">>),
              WorkflowRow(<<>>, <<"docs", "w.yaml">>)>>)

\* short rows: csv.DictReader fills the missing fields with None (here the
\* manifests have the name column last but one, the path column last)
ShortRowCatalog ==
    Catalog(<<AgentRow(<<"a", "a">>, <<"bmm">>, <<"docs", "a.md">>),
              AgentRow(None, <<"bmm">>, None)>>,
            <<WorkflowRow(None, None),
              WorkflowRow(<<"a", "a", "a">>, <<>>)>>)

\* manifests without a name column: no row has the key
NoNameCatalog ==
    Catalog(<<[displayName |-> <<"Mary">>, module |-> <<"bmm">>,
               path |-> <<"docs", "a.md">>]>>,
            <<[description |-> <<"d">>, module |-> <<"core">>,
               path |-> <<"docs", "w.yaml">>]>>)

\* names at the length limits: an agent of 50 letters, and an agent and two
\* workflows of 51 characters
LongCatalog ==
    Catalog(<<AgentRow(Name50, <<"bmm">>, <<"docs", "a.md">>),
              AgentRow(BadName51, <<"bmm">>, <<"docs", "a.md">>)>>,
            <<WorkflowRow(Name51, <<"docs", "w.yaml">>),
              WorkflowRow(BadName51, <<"docs", "w.yaml">>)>>)

\* workflows that bear the names of the discovery tokens
DiscoveryCatalog ==
    Catalog(<<AgentRow(<<"h","e","l","p">>, <<"bmm">>, <<"docs", "a.md">>)>>,
            <<WorkflowRow(Drop(LIST_AGENTS, 1), <<"docs", "w.yaml">>),
              WorkflowRow(Drop(LIST_WORKFLOWS, 1), <<"docs", "w.yaml">>),
              WorkflowRow(Drop(LIST_TASKS, 1), <<"docs", "w.yaml">>),
              WorkflowRow(Drop(HELP, 1), <<"docs", "w.yaml">>)>>)

\* names with a dangerous character that are close to well-formed names;
\* a quoted field of the manifest can end in a newline
UnsafeCatalog ==
    Catalog(<<AgentRow(<<"a", "a", ";">>, <<"bmm">>, <<"docs", "a.md">>),
              AgentRow(<<"a", "a", "\n">>, <<"bmm">>, <<"docs", "a.md">>)>>,
            <<WorkflowRow(<<"a", "1", "|">>, <<"docs", "w.yaml">>),
              WorkflowRow(<<"a", "a", "\n">>, <<"docs", "w.yaml">>)>>)

Catalogs ==
    {EmptyCatalog, PlainCatalog, EscapingCatalog, OddCatalog, ShortRowCatalog,
     NoNameCatalog, LongCatalog, DiscoveryCatalog, UnsafeCatalog}

(***************************************************************************)
(* The state machine: the server is ready, serves one request, replies.    *)
(***************************************************************************)
\* the inputs and the candidate names of _find_closest_match: short names
\* with equal ratios and different ratios, a name in uppercase, the blank
\* name, the names of the unit test, and two names whose ratio is 14/20
MatchLetters == {"a", "b", "c"}

ANALYST == <<"a","n","a","l","y","s","t">>

ARCHITECT == <<"a","r","c","h","i","t","e","c","t">>

DEV == <<"d","e","v">>

MatchInputs ==
    UNION {[1..n -> MatchLetters] : n \in 0..MaxCmdLen}
    \cup {<<"A", "b">>, <<"a","n","a","l","i","s","t">>, <<"x","y","z","1","2","3">>,
          <<"a","a","a","a","a","a","a","b","b","b">>}

CandidateNames ==
    {<<"a", "b">>, <<"a", "b", "c">>, <<"a", "b", "d">>, <<"A", "B">>, <<"c">>, <<>>}

CandidateLists ==
    UNION {[1..n -> CandidateNames] : n \in 0..MaxNames}
    \cup {<<ANALYST, ARCHITECT, DEV>>, <<DEV, ARCHITECT, ANALYST>>,
          <<<<"a","a","a","a","a","a","a","c","c","c">>>>}

NoRequest == [op |-> "none", arg |-> <<>>, kind |-> "none"]

NoResult == [pending |-> TRUE]

TypeOK ==
    /\ pc \in {"ready", "replied"}
    /\ Catalog(agents, workflows) \in Catalogs
    /\ fs \in FileTrees
    /\ request.op \in {"none", "execute", "read_file", "validate", "match",
                      "file_exists", "load", "construct", "call_tool",
                      "list_prompts", "get_prompt"}
    /\ pc = "ready" <=> request = NoRequest

\* the state after UnifiedBMADTool.__init__: the manifests are loaded
Init ==
    /\ \E c \in Catalogs : agents = c.agents /\ workflows = c.workflows
    /\ fs \in FileTrees
    /\ pc = "ready"
    /\ request = NoRequest
    /\ result = NoResult
    /\ opened = {}
    /\ read_errors = {}

\* a call of execute returns: its result and the reads it made
Returns(command, reply) ==
    /\ request' = [op |-> "execute", arg |-> command, kind |-> "none"]
    /\ result' = reply.out
    /\ opened' = reply.opens
    /\ read_errors' = reply.errors

\* one call of execute(command)
Execute ==
    /\ pc = "ready"
    /\ \E command \in Commands : Returns(command, execute(command))
    /\ pc' = "replied"
    /\ UNCHANGED <<agents, workflows, fs>>

\* one call of _validate_name(name, command_type)
ValidateName ==
    /\ pc = "ready"
    /\ \E name \in Commands, command_type \in {"agent", "workflow"} :
          /\ request' = [op |-> "validate", arg |-> name, kind |-> command_type]
          /\ result' = _validate_name(name, command_type)
    /\ opened' = {}
    /\ read_errors' = {}
    /\ pc' = "replied"
    /\ UNCHANGED <<agents, workflows, fs>>

\* one call of FileReader.read_file(file_path)
ReadFile ==
    /\ pc = "ready"
    /\ \E file_path \in Paths :
          LET reply == read_file(fs, file_path) IN
          /\ request' = [op |-> "read_file", arg |-> file_path, kind |-> "none"]
          /\ result' = reply
          /\ opened' = reply.opens
          /\ read_errors' = {reply.exc} \ {"None"}
    /\ pc' = "replied"
    /\ UNCHANGED <<agents, workflows, fs>>

\* the reply is delivered; the server takes the next request
Reply ==
    /\ pc = "replied"
    /\ pc' = "ready"
    /\ request' = NoRequest
    /\ result' = NoResult
    /\ opened' = {}
    /\ read_errors' = {}
    /\ UNCHANGED <<agents, workflows, fs>>

\* the router, on every catalog and every tree
Next ==
    \/ Execute
    \/ Reply

Spec == Init /\ [][Next]_vars

\* the file reader alone, on every tree
InitFiles ==
    /\ agents = <<>>
    /\ workflows = <<>>
    /\ fs \in FileTrees
    /\ pc = "ready"
    /\ request = NoRequest
    /\ result = NoResult
    /\ opened = {}
    /\ read_errors = {}

\* one call of FileReader.file_exists(file_path)
FileExists ==
    /\ pc = "ready"
    /\ \E file_path \in Paths :
          /\ request' = [op |-> "file_exists", arg |-> file_path, kind |-> "none"]
          /\ result' = file_exists(fs, file_path)
    /\ opened' = {}
    /\ read_errors' = {}
    /\ pc' = "replied"
    /\ UNCHANGED <<agents, workflows, fs>>

NextFiles ==
    \/ ReadFile
    \/ FileExists
    \/ Reply

SpecFiles == InitFiles /\ [][NextFiles]_vars

\* read_file while another process changes the tree.  The call is two
\* steps, the containment check and the open, and the tree may change
\* before each of them.
\* the entries of the tree that the other process replaces
ReplacedEntries == {<<"/", "srv", "docs", "a.md">>, <<"/", "srv", "link">>}

\* os.replace(new symlink to target, entry): the entry becomes a link
Replaced(tree, entry, target) == [tree EXCEPT ![entry] = Node("link", target)]

\* read_file up to the open: _resolve_path and _validate_path have run,
\* resolved_path is a local of the call
Checked(resolved_path) == [resolved_path |-> resolved_path]

\* read_file returns from the containment check: with the exception it
\* raised, or on to the open
CheckReturns(resolved) ==
    IF ReadChecked(fs, resolved).exc \in {"RuntimeError", "PathTraversalError"}
    THEN /\ result' = ReadChecked(fs, resolved)
         /\ read_errors' = {ReadChecked(fs, resolved).exc}
         /\ pc' = "replied"
    ELSE /\ result' = Checked(resolved.value)
         /\ read_errors' = {}
         /\ pc' = "checked"

\* read_file(file_path), lines 61-64: the path is resolved and checked
CheckPath ==
    /\ pc = "ready"
    /\ \E file_path \in Paths :
          /\ request' = [op |-> "read_file", arg |-> file_path, kind |-> "none"]
          /\ CheckReturns(_resolve_path(fs, file_path))
    /\ opened' = {}
    /\ UNCHANGED <<agents, workflows, fs>>

\* read_file returns from the open
OpenReturns(reply) ==
    /\ result' = reply
    /\ opened' = reply.opens
    /\ read_errors' = {reply.exc} \ {"None"}

\* read_file, lines 67-86: open(resolved_path) on the tree as it is now
OpenChecked ==
    /\ pc = "checked"
    /\ OpenReturns(ReadResolved(fs, result.resolved_path))
    /\ pc' = "replied"
    /\ UNCHANGED <<agents, workflows, fs, request>>

\* another process replaces an entry under the root by a symbolic link to
\* a file outside the root
ChangeTree ==
    /\ pc \in {"ready", "checked"}
    /\ \E entry \in ReplacedEntries :
          /\ fs[entry] # Node("link", <<"/", "etc", "passwd">>)
          /\ fs' = Replaced(fs, entry, <<"/", "etc", "passwd">>)
    /\ UNCHANGED <<agents, workflows, pc, request, result, opened, read_errors>>

NextRace ==
    \/ CheckPath
    \/ OpenChecked
    \/ ChangeTree
    \/ Reply

\* the reader starts in a tree without a symbolic link loop, where the
\* containment check holds for the tree it has seen
InitRace ==
    /\ agents = <<>>
    /\ workflows = <<>>
    /\ fs \in {Tree(t, c) : t \in LinkTargets \ {<<"link">>}, c \in {"file", "none"}}
    /\ pc = "ready"
    /\ request = NoRequest
    /\ result = NoResult
    /\ opened = {}
    /\ read_errors = {}

\* the file reader in a tree that changes
SpecRace == InitRace /\ [][NextRace]_vars

\* name validation alone, on every catalog
InitValidate ==
    /\ \E c \in Catalogs : agents = c.agents /\ workflows = c.workflows
    /\ fs = Tree(<<"docs">>, "file")
    /\ pc = "ready"
    /\ request = NoRequest
    /\ result = NoResult
    /\ opened = {}
    /\ read_errors = {}

NextValidate ==
    \/ ValidateName
    \/ Reply

SpecValidate == InitValidate /\ [][NextValidate]_vars

\* one call of _find_closest_match(input_name, valid_names)
FindClosestMatch ==
    /\ pc = "ready"
    /\ \E input_name \in MatchInputs, valid_names \in CandidateLists :
          /\ request' = [op |-> "match", arg |-> input_name, kind |-> "none",
                         valid_names |-> valid_names]
          /\ result' = _find_closest_match(input_name, valid_names)
    /\ opened' = {}
    /\ read_errors' = {}
    /\ pc' = "replied"
    /\ UNCHANGED <<agents, workflows, fs>>

\* the fuzzy matcher alone, on every list of candidates
InitMatch ==
    /\ agents = <<>>
    /\ workflows = <<>>
    /\ fs = Tree(<<"docs">>, "file")
    /\ pc = "ready"
    /\ request = NoRequest
    /\ result = NoResult
    /\ opened = {}
    /\ read_errors = {}

NextMatch ==
    \/ FindClosestMatch
    \/ Reply

SpecMatch == InitMatch /\ [][NextMatch]_vars

(***************************************************************************)
(* The catalog loader: ManifestLoader and the construction of the router.  *)
(***************************************************************************)
\* the most data rows a manifest of the model has
MaxRows == 2

\* the header line of the manifests of the model
FIELDNAMES == <<"name", "path">>

\* the fields a data row is written with: empty, blank, filled
FieldValues == {<<>>, <<" ">>, <<"a">>}

\* the data rows as csv.reader yields them: <<>> is an empty line, a row
\* may be shorter or longer than the header
RawRows == UNION {[1..n -> FieldValues] : n \in 0..(Len(FIELDNAMES) + 1)}

\* no such file in the manifest directory
NoFile == [exists |-> FALSE, rows |-> <<>>]

ManifestFile(rows) == [exists |-> TRUE, rows |-> rows]

\* the manifest files given to _load_manifest
ManifestFiles ==
    {NoFile} \cup
    {ManifestFile(rows) : rows \in UNION {[1..n -> RawRows] : n \in 0..MaxRows}}

\* csv.DictReader's row: the fields under the header's names, None for the
\* fields a short row lacks, the list of the surplus fields under the key None
DictRow(raw) ==
    [key \in {FIELDNAMES[i] : i \in 1..Len(FIELDNAMES)}
                \cup (IF Len(raw) > Len(FIELDNAMES) THEN {"<None>"} ELSE {}) |->
        IF key = "<None>" THEN SubSeq(raw, Len(FIELDNAMES) + 1, Len(raw))
        ELSE LET i == CHOOSE j \in 1..Len(FIELDNAMES) : FIELDNAMES[j] = key
             IN IF i <= Len(raw) THEN raw[i] ELSE None]

\* any(value.strip() for value in row.values()): the values in the order of
\* the row, the first filled one ends the scan; None and the list of the
\* surplus fields, which come last, have no strip()
RowFilter(raw) ==
    IF \E i \in 1..Len(raw) : i <= Len(FIELDNAMES) /\ Strip(raw[i]) # <<>>
        THEN Return(TRUE)
    ELSE IF Len(raw) # Len(FIELDNAMES) THEN Raise("AttributeError")
    ELSE Return(FALSE)

\* the list comprehension over the reader: DictReader skips the empty lines
RECURSIVE ReadRows(_, _)
ReadRows(rows, kept) ==
    IF rows = <<>> THEN Return(kept)
    ELSE IF Head(rows) = <<>> THEN ReadRows(Tail(rows), kept)
    ELSE IF RowFilter(Head(rows)).raised # "None" THEN RowFilter(Head(rows))
    ELSE IF RowFilter(Head(rows)).value
        THEN ReadRows(Tail(rows), Append(kept, DictRow(Head(rows))))
    ELSE ReadRows(Tail(rows), kept)

\* ManifestLoader._load_manifest: every exception yields the empty table
_load_manifest(manifest) ==
    IF ~manifest.exists THEN <<>>
    ELSE IF ReadRows(manifest.rows, <<>>).raised # "None" THEN <<>>
    ELSE ReadRows(manifest.rows, <<>>).value

\* a root without bmad/_cfg
NoDirectory == [exists |-> FALSE, agents |-> NoFile, workflows |-> NoFile]

ManifestDir(a, w) == [exists |-> TRUE, agents |-> a, workflows |-> w]

\* the manifests of the roots a router is constructed on
DirManifests ==
    {NoFile, ManifestFile(<<>>), ManifestFile(<<<<<<"a">>, <<"a">>>>>>),
     ManifestFile(<<<<<<>>, <<>>>>>>), ManifestFile(<<<<<<>>>>>>)}

\* the roots a router is constructed on
ManifestDirs ==
    {NoDirectory} \cup {ManifestDir(a, w) : a \in DirManifests, w \in DirManifests}

\* ManifestLoader.__init__
ManifestLoader(dir) ==
    IF ~dir.exists THEN Raise("ValueError") ELSE Return(dir)

\* UnifiedBMADTool.__init__: the loader, then the two tables
UnifiedBMADTool(dir) ==
    IF ManifestLoader(dir).raised # "None" THEN ManifestLoader(dir)
    ELSE Return(Catalog(_load_manifest(dir.agents), _load_manifest(dir.workflows)))

\* open(manifest_path) in _load_manifest: the file manifest_dir / filename
\* is opened, by the builtin open, whenever it exists
ManifestOpens(filename, manifest) ==
    IF manifest.exists THEN {BMAD_ROOT \o <<"bmad", "_cfg", filename>>} ELSE {}

\* one call of _load_manifest on the agent manifest file
LoadManifest ==
    /\ pc = "ready"
    /\ \E manifest \in ManifestFiles :
          /\ request' = [op |-> "load", arg |-> manifest, kind |-> "none"]
          /\ result' = _load_manifest(manifest)
          /\ opened' = ManifestOpens("agent-manifest.csv", manifest)
    /\ read_errors' = {}
    /\ pc' = "replied"
    /\ UNCHANGED <<agents, workflows, fs>>

\* the tables of the router constructed on dir, and the manifest files it
\* opened; none when __init__ raises
Constructed(dir, tool) ==
    /\ request' = [op |-> "construct", arg |-> dir, kind |-> "none"]
    /\ result' = tool
    /\ agents' = IF tool.raised = "None" THEN tool.value.agents ELSE agents
    /\ workflows' = IF tool.raised = "None" THEN tool.value.workflows ELSE workflows
    /\ opened' = IF tool.raised # "None" THEN {}
                 ELSE ManifestOpens("agent-manifest.csv", dir.agents)
                      \cup ManifestOpens("workflow-manifest.csv", dir.workflows)

\* one construction of the router on a root
Construct ==
    /\ pc = "ready"
    /\ \E dir \in ManifestDirs : Constructed(dir, UnifiedBMADTool(dir))
    /\ read_errors' = {}
    /\ pc' = "replied"
    /\ UNCHANGED fs

\* the loader alone, on every manifest
InitLoad ==
    /\ agents = <<>>
    /\ workflows = <<>>
    /\ fs = Tree(<<"docs">>, "file")
    /\ pc = "ready"
    /\ request = NoRequest
    /\ result = NoResult
    /\ opened = {}
    /\ read_errors = {}

NextLoad ==
    \/ LoadManifest
    \/ Construct
    \/ Reply

SpecLoad == InitLoad /\ [][NextLoad]_vars

(***************************************************************************)
(* Concurrent invocations: the coroutines of execute on one event loop.    *)
(* A call of execute creates the coroutine, with the command as its        *)
(* argument; the event loop runs it later.  execute awaits only            *)
(* coroutines that never suspend, so the loop runs an invocation from its  *)
(* first statement to its return in one step; the invocations are          *)
(* created, run and collected in any order.                                *)
(***************************************************************************)
\* the most invocations in flight
MaxCalls == 2

Calls == 1..MaxCalls

\* the commands of the concurrent invocations: the empty command, an agent
\* name, a workflow name, a discovery command, a rejected command
ConcurrentCommands ==
    {<<>>, <<"a", "a">>, <<"*", "a", "1">>, LIST_AGENTS, <<"a", ";">>}

\* one tool shared by the invocations, none of them started
InitConcurrent ==
    /\ \E c \in Catalogs : agents = c.agents /\ workflows = c.workflows
    /\ fs \in FileTrees
    /\ pc = [i \in Calls |-> "ready"]
    /\ request = [i \in Calls |-> NoRequest]
    /\ result = [i \in Calls |-> NoResult]
    /\ opened = [i \in Calls |-> {}]
    /\ read_errors = [i \in Calls |-> {}]

\* execute(command) is called: the coroutine is created, not yet run
CallExecute ==
    \E i \in Calls :
        /\ pc[i] = "ready"
        /\ \E command \in ConcurrentCommands :
              request' = [request EXCEPT
                             ![i] = [op |-> "execute", arg |-> command, kind |-> "none"]]
        /\ pc' = [pc EXCEPT ![i] = "called"]
        /\ UNCHANGED <<agents, workflows, fs, result, opened, read_errors>>

\* execute returns for invocation i: it has assigned to no attribute of the
\* tool and written no file
Served(i, reply) ==
    /\ result' = [result EXCEPT ![i] = reply.out]
    /\ opened' = [opened EXCEPT ![i] = reply.opens]
    /\ read_errors' = [read_errors EXCEPT ![i] = reply.errors]
    /\ pc' = [pc EXCEPT ![i] = "replied"]
    /\ UNCHANGED <<agents, workflows, fs, request>>

\* a router that keeps the command in an attribute of the tool, set when
\* execute is called: a coroutine runs with what the latest-numbered
\* pending call has put there
Command_shared(i) ==
    request[CHOOSE j \in Calls :
                /\ pc[j] = "called"
                /\ \A k \in Calls : pc[k] = "called" => k <= j].arg

\* the command of invocation i: the parameter of execute, kept in the
\* coroutine that the call created
Command(i) == request[i].arg

\* the event loop runs the coroutine of an invocation, to its return
RunExecute ==
    \E i \in Calls :
        /\ pc[i] = "called"
        /\ Served(i, execute(Command(i)))

\* the caller takes the result of an invocation
TakeResult ==
    \E i \in Calls :
        /\ pc[i] = "replied"
        /\ pc' = [pc EXCEPT ![i] = "ready"]
        /\ request' = [request EXCEPT ![i] = NoRequest]
        /\ result' = [result EXCEPT ![i] = NoResult]
        /\ opened' = [opened EXCEPT ![i] = {}]
        /\ read_errors' = [read_errors EXCEPT ![i] = {}]
        /\ UNCHANGED <<agents, workflows, fs>>

NextConcurrent ==
    \/ CallExecute
    \/ RunExecute
    \/ TakeResult

SpecConcurrent == InitConcurrent /\ [][NextConcurrent]_vars

(***************************************************************************)
(* The MCP server: BMADMCPServer of mcp_server.py, over the same catalog   *)
(* and the same router.                                                    *)
(***************************************************************************)
\* mcp.types.TextContent(type="text", text=text)
TextContent(text) == [type |-> "text", text |-> text]

\* mcp.types.CallToolResult(content=content, isError=isError)
CallToolResult(content, isError) == [content |-> content, isError |-> isError]

\* the text of a workflow reply: the parts of the result it is joined from
WorkflowText(r) ==
    [name |-> Get(r, "name", None), context |-> Get(r, "context", None),
     path |-> Get(r, "path", None), workflow_yaml |-> Get(r, "workflow_yaml", None),
     instructions |-> Get(r, "instructions", None)]

\* _execute_bmad_tool from the return of execute on: an exception of
\* execute propagates, an error result becomes a reply of its message alone
BmadReply(r) ==
    IF "raised" \in DOMAIN r THEN r
    ELSE IF ~Get(r, "success", FALSE)
        THEN CallToolResult(<<TextContent(Get(r, "error", <<"Unknown error occurred">>))>>,
                            TRUE)
    ELSE IF Get(r, "type", None) = "workflow"
        THEN CallToolResult(<<TextContent(WorkflowText(r))>>, FALSE)
    ELSE CallToolResult(<<TextContent(Get(r, "content", <<>>))>>, FALSE)

\* what a call of the tool produced: the result of the router, the reply
\* of the server, the reads
CallOutcome(router, reply, opens, errors) ==
    [router |-> router, reply |-> reply, opens |-> opens, errors |-> errors]

\* _execute_bmad_tool once execute has returned
BmadExecuted(e) == CallOutcome(e.out, BmadReply(e.out), e.opens, e.errors)

\* BMADMCPServer._execute_bmad_tool
_execute_bmad_tool(arguments) == BmadExecuted(execute(Get(arguments, "command", <<>>)))

\* BMADMCPServer.call_tool
call_tool(name, arguments) ==
    IF name = "bmad" THEN _execute_bmad_tool(arguments)
    ELSE CallOutcome(NoResult,
                     CallToolResult(<<TextContent(Message("Unknown tool", <<name>>))>>,
                                    TRUE),
                     {}, {})

\* the prefix of the prompt names
BMAD_PREFIX == <<"b","m","a","d","-">>

\* name.replace(old, ''): every occurrence of old, from the left
RECURSIVE Remove(_, _)
Remove(name, old) ==
    IF name = <<>> THEN <<>>
    ELSE IF StartsWith(name, old) THEN Remove(Drop(name, Len(old)), old)
    ELSE <<Head(name)>> \o Remove(Tail(name), old)

\* list_prompts: the prompt name of an agent name
prompt_name(agent_name) ==
    IF StartsWith(agent_name, BMAD_PREFIX) THEN agent_name
    ELSE BMAD_PREFIX \o agent_name

\* BMADMCPServer.list_prompts: None has no startswith
list_prompts ==
    IF \E i \in 1..Len(agents) : Get(agents[i], "name", <<>>) = None
    THEN Raise("AttributeError")
    ELSE Return([i \in 1..Len(agents) |->
                    [name |-> prompt_name(Get(agents[i], "name", <<>>)),
                     display_name |-> Get(agents[i], "displayName",
                                          Get(agents[i], "name", <<>>))]])

\* get_prompt: the first row whose name is the prompt name, with every
\* "bmad-" removed or as it is; 0 when there is none
PromptRow(name) ==
    LET hits == {i \in 1..Len(agents) :
                    Get(agents[i], "name", None) \in {Remove(name, BMAD_PREFIX), name}}
    IN  IF hits = {} THEN 0 ELSE CHOOSE i \in hits : \A j \in hits : i <= j

\* what get_prompt produced: the description of its result, the name given
\* to _load_agent (None when it was not called), the loaded content, the reads
PromptOutcome(description, loaded, text, opens, errors) ==
    [reply |-> [description |-> description, text |-> text], loaded |-> loaded,
     opens |-> opens, errors |-> errors]

\* get_prompt once _load_agent has returned
PromptLoaded(agent_name, e) ==
    IF ~Get(e.out, "success", FALSE)
    THEN PromptOutcome("Error loading agent", agent_name,
                       Get(e.out, "error", <<"Unknown error">>), e.opens, e.errors)
    ELSE PromptOutcome("BMAD Agent", agent_name, e.out.content, e.opens, e.errors)

\* get_prompt for the row found in the manifest
PromptFound(agent_name) == PromptLoaded(agent_name, _load_agent(agent_name))

\* BMADMCPServer.get_prompt; the message of the missing agent joins the
\* names of the manifest, and None cannot be joined
get_prompt(name) ==
    IF PromptRow(name) = 0
    THEN IF \E i \in 1..Len(agents) : Get(agents[i], "name", <<>>) = None
         THEN [reply |-> [raised |-> "TypeError"], loaded |-> None,
               opens |-> {}, errors |-> {}]
         ELSE PromptOutcome("Error: Agent not found", None,
                            Message("Agent not found", <<name>>), {}, {})
    ELSE PromptFound(agents[PromptRow(name)].name)

\* agent names that begin with, or contain, the prefix of the prompt names
PrefixCatalog ==
    Catalog(<<AgentRow(MASTER, <<"core">>, <<"docs", "a.md">>),
              AgentRow(BMAD_MASTER, <<"core">>, <<"docs", "a.md">>),
              AgentRow(<<"a", "-">> \o BMAD_PREFIX \o <<"a">>, <<"bmm">>,
                       <<"docs", "a.md">>)>>,
            <<>>)

\* the catalogs of the server
ServerCatalogs == Catalogs \cup {PrefixCatalog}

\* the state after BMADMCPServer.__init__: the server and its router have
\* loaded the same manifests
InitServer ==
    /\ \E c \in ServerCatalogs : agents = c.agents /\ workflows = c.workflows
    /\ fs \in FileTrees
    /\ pc = "ready"
    /\ request = NoRequest
    /\ result = NoResult
    /\ opened = {}
    /\ read_errors = {}

\* the names get_prompt is called with: the advertised names, an agent
\* name without prefix, a name that no row bears
PromptNames ==
    (IF list_prompts.raised = "None"
     THEN {list_prompts.value[i].name : i \in 1..Len(agents)} ELSE {})
    \cup {<<"a", "a">>, BMAD_PREFIX \o <<"x">>}

\* one call of list_prompts()
ListPrompts ==
    /\ pc = "ready"
    /\ request' = [op |-> "list_prompts", arg |-> <<>>, kind |-> "none"]
    /\ result' = list_prompts
    /\ opened' = {}
    /\ read_errors' = {}
    /\ pc' = "replied"
    /\ UNCHANGED <<agents, workflows, fs>>

\* a call of get_prompt returns
PromptReturns(name, outcome) ==
    /\ request' = [op |-> "get_prompt", arg |-> name, kind |-> "none"]
    /\ result' = [reply |-> outcome.reply, loaded |-> outcome.loaded]
    /\ opened' = outcome.opens
    /\ read_errors' = outcome.errors

\* one call of get_prompt(name, {})
GetPrompt ==
    /\ pc = "ready"
    /\ \E name \in PromptNames : PromptReturns(name, get_prompt(name))
    /\ pc' = "replied"
    /\ UNCHANGED <<agents, workflows, fs>>

\* the arguments of a call: a command, or no command at all
ToolArguments == {[command |-> c] : c \in Commands} \cup {<<>>}

\* a call of call_tool returns
ToolReturns(name, arguments, outcome) ==
    /\ request' = [op |-> "call_tool", arg |-> arguments, kind |-> name]
    /\ result' = [router |-> outcome.router, reply |-> outcome.reply]
    /\ opened' = outcome.opens
    /\ read_errors' = outcome.errors

\* one call of call_tool(name, arguments)
CallTool ==
    /\ pc = "ready"
    /\ \E name \in {"bmad", "other"}, arguments \in ToolArguments :
          ToolReturns(name, arguments, call_tool(name, arguments))
    /\ pc' = "replied"
    /\ UNCHANGED <<agents, workflows, fs>>

NextServer ==
    \/ CallTool
    \/ ListPrompts
    \/ GetPrompt
    \/ Reply

\* the server, on every catalog and every tree
SpecServer == InitServer /\ [][NextServer]_vars

(***************************************************************************)
(* The claims.                                                             *)
(***************************************************************************)
ExecReplied == pc = "replied" /\ request.op = "execute"

ReadReplied == pc = "replied" /\ request.op = "read_file"

ValidateReplied == pc = "replied" /\ request.op = "validate"

Raised(r) == "raised" \in DOMAIN r

IsSuccess(r) == "success" \in DOMAIN r /\ r.success

IsFailure(r) == "success" \in DOMAIN r /\ ~r.success

ErrorCode(r) == IF "error_code" \in DOMAIN r THEN r.error_code ELSE "None"

InsideRoot(path) == IsRelativeTo(path, BMAD_ROOT)

\* the canonical form of a path string: what the kernel resolves it to
Canonical(file_path) ==
    KernelWalk(fs, <<"/">>,
               IF IsAbsolute(file_path) THEN file_path ELSE BMAD_ROOT \o file_path, {})

\* C1: read_file returns content only for a file whose canonical path is
\* under the canonical root; for a path whose canonical form is outside
\* the root it raises PathTraversalError and opens no file.
C1_ContentOnlyInsideRoot ==
    ReadReplied =>
        /\ result.exc = "None" => InsideRoot(result.file)
        /\ \A f \in opened : InsideRoot(f)
        /\ (Canonical(request.arg).err = "None"
              /\ ~InsideRoot(Canonical(request.arg).path))
            => (result.exc = "PathTraversalError" /\ opened = {})

\* C2: a request during which a file read raised PathTraversalError ends
\* in an error result.
C2_TraversalIsFatal ==
    (ExecReplied /\ "PathTraversalError" \in read_errors) => IsFailure(result)

ListedDangerous == {";", "&", "|", "$", "U+0060", "<", ">", "(", ")"}

HasListedDangerous(s) == \E i \in 1..Len(s) : s[i] \in ListedDangerous

\* C3: every command that contains one of ; & | $ ` < > ( ) is answered
\* with the error INVALID_CHARACTERS, whatever else it contains and
\* whatever the catalog holds.
C3_DangerousAlwaysRejected ==
    (ExecReplied /\ HasListedDangerous(request.arg))
        => (IsFailure(result) /\ ErrorCode(result) = "INVALID_CHARACTERS")

\* a command with a dangerous character, several tokens, two leading
\* asterisks and a non-ASCII character was rejected as INVALID_CHARACTERS
C3_Witness ==
    /\ ExecReplied
    /\ HasListedDangerous(request.arg)
    /\ Len(Split(request.arg)) > 1
    /\ StartsWith(request.arg, <<"*", "*">>)
    /\ ~IsAscii(request.arg)
    /\ ErrorCode(result) = "INVALID_CHARACTERS"

\* C4: every command with a character above code point 127 is answered
\* with the error NON_ASCII_CHARACTERS or INVALID_CHARACTERS, never with a
\* success result.
C4_NonAsciiAlwaysRejected ==
    (ExecReplied /\ ~IsAscii(request.arg))
        => /\ IsFailure(result)
           /\ ErrorCode(result) \in {"NON_ASCII_CHARACTERS", "INVALID_CHARACTERS"}

\* C5: every invocation of execute returns a success result with a type
\* and a payload, or a failure result with an error code, a message and a
\* suggestions list.
C5_ResultContract ==
    ExecReplied =>
        \/ /\ IsSuccess(result)
           /\ result.type \in {"agent", "workflow", "list", "help"}
           /\ {"content", "workflow_yaml"} \cap DOMAIN result # {}
        \/ /\ IsFailure(result)
           /\ {"error_code", "error", "suggestions"} \subseteq DOMAIN result
           /\ result.error_code # "None"

\* C6: no exception escapes execute.
C6_ExecuteIsTotal == ExecReplied => ~Raised(result)

WhitespaceOnly(s) == \A i \in 1..Len(s) : s[i] \in Whitespace

HasDefaultAgent == \E i \in 1..Len(agents) : Get(agents[i], "name", None) = BMAD_MASTER

LoadedDefaultAgent ==
    IsSuccess(result) /\ result.type = "agent" /\ result.agent_name = BMAD_MASTER

\* C7 as claimed: the empty command and every whitespace-only command
\* return the agent success result for bmad-master.
C7_Original == (ExecReplied /\ WhitespaceOnly(request.arg)) => LoadedDefaultAgent

\* C7 as amended: the empty command and every whitespace-only command
\* return the agent success result for bmad-master when the catalog has an
\* agent row of that name, and otherwise the "not found in manifest"
\* failure with exit code 2.
C7_DefaultAgent ==
    (ExecReplied /\ WhitespaceOnly(request.arg))
        => IF HasDefaultAgent
           THEN LoadedDefaultAgent
           ELSE IsFailure(result) /\ result.exit_code = 2

\* a command of several whitespace characters loaded bmad-master
C7_Witness ==
    /\ ExecReplied
    /\ Len(request.arg) >= 2
    /\ WhitespaceOnly(request.arg)
    /\ LoadedDefaultAgent

\* the catalog agent names that differ from name only in letter case
CaseVariants(name) ==
    {i \in 1..Len(agents) :
        /\ _get_agent_names[i] # None
        /\ _get_agent_names[i] # name
        /\ Lower(_get_agent_names[i]) = Lower(name)}

\* C8: agent validation of a name that differs only in letter case from a
\* catalog agent name yields CASE_MISMATCH with that catalog name as the
\* only suggestion.
C8_CaseMismatchDiagnosed ==
    (/\ ValidateReplied
     /\ request.kind = "agent"
     /\ ~_is_agent_name(request.arg)
     /\ CaseVariants(request.arg) # {})
        => /\ result.raised = "None"
           /\ result.value.error_code = "CASE_MISMATCH"
           /\ \E i \in CaseVariants(request.arg) :
                  result.value.suggestions = <<_get_agent_names[i]>>

\* the name validated is a name of the catalog, not blank table of its kind
ValidatedCatalogName ==
    /\ ValidateReplied
    /\ request.arg # <<>>
    /\ IF request.kind = "agent"
       THEN \E i \in 1..Len(agents) : Get(agents[i], "name", None) = request.arg
       ELSE \E i \in 1..Len(workflows) : Get(workflows[i], "name", None) = request.arg

\* the letters of the names of a kind
NameLetters(kind) == IF kind = "agent" THEN LowerLetters ELSE LowerLetters \cup Digits

\* the format of a name as the specification and the error text state it:
\* groups of letters separated by single hyphens, and no other character
IsWellFormed(name, letters) ==
    /\ name # <<>>
    /\ \A i \in 1..Len(name) : name[i] \in letters \cup {"-"}
    /\ name[1] # "-"
    /\ name[Len(name)] # "-"
    /\ \A i \in 1..(Len(name) - 1) : ~(name[i] = "-" /\ name[i + 1] = "-")

\* a well-formed name followed by one newline
IsWellFormedBeforeNewline(name, letters) ==
    /\ Len(name) >= 2
    /\ name[Len(name)] = "\n"
    /\ IsWellFormed(SubSeq(name, 1, Len(name) - 1), letters)

\* the name validated has a valid length and the format of its kind
ValidatedWellFormedName ==
    /\ Len(request.arg) >= 2
    /\ Len(request.arg) <= 50
    /\ IsWellFormed(request.arg, NameLetters(request.kind))

\* the name validated is a name of the table of its kind, blank or not
ValidatedTableName ==
    /\ ValidateReplied
    /\ IF request.kind = "agent"
       THEN \E i \in 1..Len(agents) : Get(agents[i], "name", None) = request.arg
       ELSE \E i \in 1..Len(workflows) : Get(workflows[i], "name", None) = request.arg

\* C9 as claimed: _validate_name accepts every name of the catalog.
C9_Original ==
    ValidatedCatalogName => (result.raised = "None" /\ result.value.valid)

\* C9 as amended: _validate_name accepts every name of the catalog that is
\* 2 to 50 characters long and is made of groups of letters (for workflows
\* also digits) separated by single hyphens; it rejects every other name of
\* the catalog, by its length first and its format second, except a
\* well-formed name followed by one newline, which it accepts.
C9_RoundTrip ==
    ValidatedTableName =>
        /\ result.raised = "None"
        /\ ValidatedWellFormedName => result.value.valid
        /\ Len(request.arg) < 2 => result.value.error_code = "NAME_TOO_SHORT"
        /\ Len(request.arg) > 50 => result.value.error_code = "NAME_TOO_LONG"
        /\ (/\ Len(request.arg) >= 2
            /\ Len(request.arg) <= 50
            /\ ~IsWellFormed(request.arg, NameLetters(request.kind)))
              => IF IsWellFormedBeforeNewline(request.arg, NameLetters(request.kind))
                 THEN result.value.valid
                 ELSE result.value.error_code = "INVALID_NAME_FORMAT"

\* a workflow name of the catalog, with a digit, was validated and accepted
C9_Witness ==
    /\ ValidatedCatalogName
    /\ request.kind = "workflow"
    /\ \E i \in 1..Len(request.arg) : request.arg[i] \in Digits
    /\ result.value.valid

\* the trimmed command is the name of a catalog workflow, without asterisk
NamesWorkflowWithoutAsterisk ==
    /\ ExecReplied
    /\ Strip(request.arg) # <<>>
    /\ ~StartsWith(Strip(request.arg), <<"*">>)
    /\ \E i \in 1..Len(workflows) :
          Get(workflows[i], "name", None) = Strip(request.arg)

MissingAsterisk ==
    /\ IsFailure(result)
    /\ ErrorCode(result) = "MISSING_ASTERISK"
    /\ result.suggestions = << <<"*">> \o Strip(request.arg) >>

\* C10 as claimed: a command whose trimmed form is a catalog workflow name
\* without a leading * is answered with MISSING_ASTERISK and the single
\* suggestion * + name.
C10_Original == NamesWorkflowWithoutAsterisk => MissingAsterisk

\* C10 as amended: the same, for a trimmed form that has no dangerous
\* character, no non-ASCII character and no space; also when the name
\* is an agent name too.
C10_MissingAsterisk ==
    (/\ NamesWorkflowWithoutAsterisk
     /\ \A i \in 1..Len(Strip(request.arg)) :
           Strip(request.arg)[i] \notin ListedDangerous \cup {"\n", "\r"}
     /\ IsAscii(Strip(request.arg))
     /\ ~Contains(Strip(request.arg), " "))
        => MissingAsterisk

\* a name that is both a workflow and an agent of the catalog was answered
\* with MISSING_ASTERISK
C10_Witness ==
    /\ NamesWorkflowWithoutAsterisk
    /\ \E i \in 1..Len(agents) : Get(agents[i], "name", None) = Strip(request.arg)
    /\ MissingAsterisk

\* the trimmed command, which is what _parse_command is given
Trimmed == Strip(request.arg)

\* the trimmed command passes _check_security
PassesSecurity == _check_security(Trimmed).valid

\* C11: every command of a single token that passes the security check and
\* begins with ** is answered with INVALID_ASTERISK_COUNT and the single
\* suggestion * + the text after the two asterisks; the answer is made of
\* the command alone, whatever the catalog holds, and no file is read.
C11_DoubleAsterisk ==
    (/\ ExecReplied
     /\ PassesSecurity
     /\ Len(Split(Trimmed)) = 1
     /\ StartsWith(Trimmed, <<"*", "*">>))
        => /\ result = _format_error_response(
                  ValidationResult(FALSE, "INVALID_ASTERISK_COUNT",
                      Message("_format_double_asterisk_error", <<Drop(Trimmed, 2)>>),
                      <<<<"*">> \o Drop(Trimmed, 2)>>, 1))
           /\ opened = {}
           /\ read_errors = {}

\* ** followed by the name of a catalog workflow was answered with
\* INVALID_ASTERISK_COUNT and the suggestion * + name
C11_Witness ==
    /\ ExecReplied
    /\ StartsWith(Trimmed, <<"*", "*">>)
    /\ _is_workflow_name(Drop(Trimmed, 2))
    /\ Drop(Trimmed, 2) # <<>>
    /\ ErrorCode(result) = "INVALID_ASTERISK_COUNT"
    /\ result.suggestions = <<<<"*">> \o Drop(Trimmed, 2)>>

\* C12: every command that passes the security check and whose trimmed
\* form contains a space is answered with TOO_MANY_ARGUMENTS, the message
\* being made from the tokens of the command (the first offered as an
\* agent, the second as a workflow), whatever asterisks it begins with and
\* whatever names the catalog holds.
C12_TooManyArguments ==
    (ExecReplied /\ PassesSecurity /\ Contains(Trimmed, " "))
        => /\ Len(Split(Trimmed)) >= 2
           /\ result = _format_error_response(
                  ValidationResult(FALSE, "TOO_MANY_ARGUMENTS",
                      Message("_format_too_many_args_error", Split(Trimmed)),
                      <<>>, 1))

\* a command of two tokens that begins with ** and whose second token is a
\* catalog workflow was answered with TOO_MANY_ARGUMENTS
C12_Witness ==
    /\ ExecReplied
    /\ StartsWith(Trimmed, <<"*", "*">>)
    /\ Contains(Trimmed, " ")
    /\ PassesSecurity
    /\ _is_workflow_name(Split(Trimmed)[2])
    /\ ErrorCode(result) = "TOO_MANY_ARGUMENTS"

MatchReplied == pc = "replied" /\ request.op = "match"

\* the similarity ratio of the k-th candidate to the input, both in lowercase
MatchRatio(k) == Ratio(Lower(request.arg), Lower(request.valid_names[k]))

\* the candidates whose ratio is at least 0.70
Eligible ==
    {k \in 1..Len(request.valid_names) : 10 * MatchRatio(k)[1] >= 7 * MatchRatio(k)[2]}

\* the k-th candidate has a strictly higher ratio than the j-th
Higher(k, j) == MatchRatio(k)[1] * MatchRatio(j)[2] > MatchRatio(j)[1] * MatchRatio(k)[2]

\* C13: _find_closest_match returns the candidate of the highest ratio
\* (input and candidate compared in lowercase) among those whose ratio is
\* at least 0.70, the first of them in list order when several share that
\* ratio, and None when no candidate reaches 0.70; "analist" over analyst,
\* architect, dev gives analyst and "xyz123" gives None.
C13_ClosestMatch ==
    MatchReplied =>
        /\ result.raised = "None"
        /\ IF Eligible = {} THEN result.value = None
           ELSE \E k \in Eligible :
                   /\ result.value = request.valid_names[k]
                   /\ \A j \in Eligible : ~Higher(j, k)
                   /\ \A j \in Eligible : j < k => Higher(k, j)
        /\ request.valid_names = <<ANALYST, ARCHITECT, DEV>> =>
              /\ request.arg = <<"a","n","a","l","i","s","t">> => result.value = ANALYST
              /\ request.arg = <<"x","y","z","1","2","3">> => result.value = None

\* two candidates shared the highest ratio, below 1 and at least 0.70, a
\* third had a lower ratio, and the first of the two was returned
C13_Witness ==
    /\ MatchReplied
    /\ \E k, j \in Eligible :
          /\ k < j
          /\ ~Higher(k, j) /\ ~Higher(j, k)
          /\ request.valid_names[k] # request.valid_names[j]
          /\ MatchRatio(k)[1] < MatchRatio(k)[2]
          /\ result.value = request.valid_names[k]
    /\ \E k \in 1..Len(request.valid_names) : k \notin Eligible

\* the error code of a returned ValidationResult, "None" when it is valid
\* or when _validate_name raised
ValidationCode == IF result.raised = "None" THEN result.value.error_code ELSE "None"

\* C14: _validate_name answers every name shorter than 2 characters with
\* NAME_TOO_SHORT and every name longer than 50 with NAME_TOO_LONG,
\* whatever its format and whether or not the catalog holds it, and gives
\* no length error for a name of 2 to 50 characters.
C14_LengthBounds ==
    ValidateReplied =>
        /\ Len(request.arg) < 2 => ValidationCode = "NAME_TOO_SHORT"
        /\ Len(request.arg) > 50 => ValidationCode = "NAME_TOO_LONG"
        /\ (Len(request.arg) >= 2 /\ Len(request.arg) <= 50)
              => ValidationCode \notin {"NAME_TOO_SHORT", "NAME_TOO_LONG"}

\* a name of 51 characters that the catalog holds and that begins with an
\* uppercase letter was answered with NAME_TOO_LONG
C14_Witness ==
    /\ ValidatedCatalogName
    /\ Len(request.arg) = 51
    /\ request.arg[1] = "A"
    /\ ValidationCode = "NAME_TOO_LONG"

\* the format of a name: characters of the class and single hyphens only,
\* no hyphen first or last
WellFormed(name, letters) ==
    /\ name # <<>>
    /\ \A i \in 1..Len(name) : name[i] \in letters \cup {"-"}
    /\ name[1] # "-"
    /\ name[Len(name)] # "-"
    /\ \A i \in 1..(Len(name) - 1) : ~(name[i] = "-" /\ name[i + 1] = "-")

\* C15: _validate_name answers every agent name of 2 to 50 characters that
\* is not made of lowercase letters and single inner hyphens, and every
\* workflow name of that length that is not made of lowercase letters,
\* digits and single inner hyphens, with INVALID_NAME_FORMAT, whatever the
\* catalog holds.
C15_FormatRejected ==
    (/\ ValidateReplied
     /\ Len(request.arg) >= 2
     /\ Len(request.arg) <= 50
     /\ ~WellFormed(request.arg, IF request.kind = "agent" THEN LowerLetters
                                 ELSE LowerLetters \cup Digits))
        => ValidationCode = "INVALID_NAME_FORMAT"

\* C16: read_file ends in one of three ways only: content, a
\* PathTraversalError, or a FileReadError that is not a PathTraversalError;
\* PathTraversalError is raised only for a path outside the root, and a
\* path whose canonical form is outside the root is never answered with an
\* ordinary FileReadError.
C16_TwoKindsOfFailure ==
    ReadReplied =>
        /\ result.exc \in {"None", "PathTraversalError", "FileReadError"}
        /\ (Canonical(request.arg).err = "None"
              /\ ~InsideRoot(Canonical(request.arg).path))
            => result.exc # "FileReadError"
        /\ (result.exc = "PathTraversalError" /\ Canonical(request.arg).err = "None")
            => ~InsideRoot(Canonical(request.arg).path)

ExistsReplied == pc = "replied" /\ request.op = "file_exists"

\* C17: file_exists never raises, and returns true only for a path that
\* names an existing regular file whose canonical path is inside the root.
C17_ExistsNeverRaises ==
    ExistsReplied =>
        /\ result.raised = "None"
        /\ result.value = TRUE =>
              /\ Canonical(request.arg).err = "None"
              /\ InsideRoot(Canonical(request.arg).path)
              /\ Lstat(fs, Canonical(request.arg).path) = "file"

\* C18: loading a manifest keeps exactly the rows that have a non-blank
\* field, in the order of the table, whatever blank or short rows stand
\* beside them; a missing manifest file yields the empty table
LoadReplied == pc = "replied" /\ request.op = "load"

HasNonBlankField(raw) == \E i \in 1..Len(raw) : Strip(raw[i]) # <<>>

RECURSIVE RowsWithContent(_)
RowsWithContent(rows) ==
    IF rows = <<>> THEN <<>>
    ELSE IF HasNonBlankField(Head(rows))
        THEN <<DictRow(Head(rows))>> \o RowsWithContent(Tail(rows))
    ELSE RowsWithContent(Tail(rows))

\* C18: the loaded table is the rows with a non-blank field, in table order;
\* it is empty for a missing file
C18_KeepsRowsWithContent ==
    LoadReplied =>
        result = IF request.arg.exists THEN RowsWithContent(request.arg.rows)
                 ELSE <<>>

ConstructReplied == pc = "replied" /\ request.op = "construct"

\* C19: constructing the router on a root without manifest directory does
\* not fail and leaves both tables empty
C19_ConstructsWithoutManifestDir ==
    ConstructReplied /\ ~request.arg.exists =>
        /\ result.raised = "None"
        /\ result.value = EmptyCatalog

\* the discovery commands: execute compares the trimmed command with them
DiscoveryCommands == {LIST_AGENTS, LIST_WORKFLOWS, LIST_TASKS, HELP}

\* C20: serving a discovery command (*list-agents, *list-workflows,
\* *list-tasks, *help) opens no file and attempts no read
C20_DiscoveryReadsNoFile ==
    ExecReplied /\ Strip(request.arg) \in DiscoveryCommands =>
        opened = {} /\ read_errors = {}

\* the discovery result of a kind: a success of type "list" with the list's
\* kind, or of type "help"
IsDiscoveryResult(r, kind) ==
    /\ IsSuccess(r)
    /\ r.exit_code = 0
    /\ IF kind = "help" THEN r.type = "help"
       ELSE r.type = "list" /\ r.list_type = kind

\* the workflow table holds a row of that name
HasWorkflow(name) == \E i \in 1..Len(workflows) : Get(workflows[i], "name", None) = name

\* C21: a command whose trimmed form is a discovery token yields the
\* discovery success result of that token, whatever the catalog holds, also
\* a workflow that bears the token's name
C21_DiscoveryBypassesValidation ==
    ExecReplied =>
        /\ Strip(request.arg) = LIST_AGENTS => IsDiscoveryResult(result, "agents")
        /\ Strip(request.arg) = LIST_WORKFLOWS => IsDiscoveryResult(result, "workflows")
        /\ Strip(request.arg) = LIST_TASKS => IsDiscoveryResult(result, "tasks")
        /\ Strip(request.arg) = HELP => IsDiscoveryResult(result, "help")

\* a padded *help answered with the help result by a router whose catalog
\* holds a workflow named help
C21_Witness ==
    /\ ExecReplied
    /\ request.arg = <<" ">> \o HELP \o <<"\t">>
    /\ HasWorkflow(Drop(HELP, 1))
    /\ IsDiscoveryResult(result, "help")

\* two invocations that have returned and were given the same command
SameCommandReturned(i, j) ==
    /\ pc[i] = "replied"
    /\ pc[j] = "replied"
    /\ request[i].arg = request[j].arg

\* invocation i has returned what execute returns for its command when it
\* runs alone, from its first statement to its return, on the catalog and
\* the tree: the result, the files read and the read errors
ReturnedAsAlone(i) ==
    Handled(result[i], opened[i], read_errors[i]) = execute(request[i].arg)

ToolReplied == pc = "replied" /\ request.op = "call_tool" /\ request.kind = "bmad"

\* the router answered with a parse, security or validation error
RouterError(r) == IsFailure(r) /\ ErrorCode(r) # "None"

\* C23: a parse, security or validation error of the router reaches the
\* caller of call_tool('bmad') in a reply marked as an error that carries
\* the error code, the message and the suggestions as the router produced them
C23_ErrorsSurfaceVerbatim ==
    ToolReplied /\ RouterError(result.router) =>
        /\ ~Raised(result.reply)
        /\ result.reply.isError
        /\ \E k \in 1..Len(result.reply.content) :
              result.reply.content[k].text = result.router.error
        /\ "error_code" \in DOMAIN result.reply
        /\ result.reply.error_code = result.router.error_code
        /\ "suggestions" \in DOMAIN result.reply
        /\ result.reply.suggestions = result.router.suggestions

\* the agent success result for the agent of that name
IsAgentResult(r, name) == IsSuccess(r) /\ r.type = "agent" /\ r.agent_name = name

\* C24: on a catalog that holds the agent bmad-master, execute("master")
\* returns the agent success result for bmad-master, as does the canonical
\* name bmad-master itself
C24_MasterAlias ==
    ExecReplied /\ HasDefaultAgent /\ Strip(request.arg) \in {MASTER, BMAD_MASTER} =>
        IsAgentResult(result, BMAD_MASTER)

\* the workflow success result
IsWorkflowResult(r) == IsSuccess(r) /\ r.type = "workflow"

\* the name is the name of a row of the table
InTable(rows, name) == \E i \in 1..Len(rows) : Get(rows[i], "name", None) = name

\* the trimmed command is '*' immediately followed by a catalog workflow name
ExactWorkflowCommand ==
    /\ Trimmed # <<>>
    /\ Trimmed[1] = "*"
    /\ InTable(workflows, Drop(Trimmed, 1))

\* the trimmed command is a catalog agent name
ExactAgentCommand == Trimmed # <<>> /\ InTable(agents, Trimmed)

\* C25: a workflow success result is returned only for '*' immediately
\* followed by a catalog workflow name, an agent success result only for the
\* empty command or a catalog agent name, and every other command that is
\* not a discovery token gives a parse or validation error
C25_OnlyExactCommandsSucceed ==
    ExecReplied =>
        /\ ~Raised(result) /\ IsWorkflowResult(result) => ExactWorkflowCommand
        /\ ~Raised(result) /\ IsSuccess(result) /\ result.type = "agent"
              => (Trimmed = <<>> \/ ExactAgentCommand)
        /\ (/\ Trimmed # <<>>
            /\ Trimmed \notin DiscoveryCommands
            /\ ~ExactWorkflowCommand
            /\ ~ExactAgentCommand) => (~Raised(result) /\ RouterError(result))

\* the suggestions of the error result of execute, none for another result
Suggestions ==
    IF ExecReplied /\ ~Raised(result) /\ IsFailure(result)
          /\ "suggestions" \in DOMAIN result
    THEN result.suggestions ELSE <<>>

\* letters, digits and hyphens, after an optional leading asterisk
IsPlainSuggestion(s) ==
    \A i \in 1..Len(s) :
        \/ s[i] \in LowerLetters \cup {UpperSeq[j] : j \in 1..26} \cup Digits \cup {"-"}
        \/ i = 1 /\ s[i] = "*"

\* C26: every suggestion of an error result of execute passes the security
\* check and is made, after an optional leading asterisk, of letters, digits
\* and hyphens only; an error result carries at most one suggestion
C26_SuggestionsAreSafe ==
    /\ Len(Suggestions) <= 1
    /\ \A k \in 1..Len(Suggestions) :
          /\ _check_security(Suggestions[k]).valid
          /\ IsPlainSuggestion(Suggestions[k])

\* the part of the result that holds the primary document: the agent's
\* definition file, the workflow's configuration file
PrimaryDocument ==
    IF result.type = "agent" THEN result.content.definition ELSE result.workflow_yaml

\* C27: execute returns an agent or workflow success result only when the
\* primary document named by the catalog row was read; a failed or omitted
\* read of it never ends in a success result
C27_PrimaryDocumentRequired ==
    (/\ ExecReplied
     /\ ~Raised(result)
     /\ IsSuccess(result)
     /\ result.type \in {"agent", "workflow"}) => PrimaryDocument.kind = "content"

\* the name passed the security check and has the length of a valid name
IsCheckedName(name) ==
    /\ _check_security(name).valid
    /\ Len(name) >= MIN_NAME_LENGTH
    /\ Len(name) <= MAX_NAME_LENGTH

\* the loader or the executor answered "not found in manifest"
NotFoundInManifest(r) == IsFailure(r) /\ r.exit_code = 2

\* C28: for a command whose trimmed form is not empty, the agent loader and
\* the workflow executor are reached only with a name that passed the
\* security check, is 2 to 50 characters long, matches the pattern of its
\* kind and is in the table of its kind; the result "not found in manifest"
\* (exit code 2) is never returned
C28_LoadersGetValidatedNames ==
    (ExecReplied /\ Trimmed # <<>> /\ ~Raised(result)) =>
        /\ ~NotFoundInManifest(result)
        /\ (IsSuccess(result) /\ result.type = "agent") =>
              /\ IsCheckedName(result.agent_name)
              /\ AGENT_NAME_PATTERN(result.agent_name)
              /\ InTable(agents, result.agent_name)
        /\ IsWorkflowResult(result) =>
              /\ IsCheckedName(result.name)
              /\ WORKFLOW_NAME_PATTERN(result.name)
              /\ InTable(workflows, result.name)

\* an agent of 50 letters was loaded, on a catalog that also holds agents
\* and workflows with names that are too long
C28_Witness ==
    /\ ExecReplied
    /\ Trimmed = Name50
    /\ IsAgentResult(result, Name50)
    /\ InTable(agents, BadName51)

PromptReplied == pc = "replied" /\ request.op = "get_prompt"

PromptsListed ==
    pc = "replied" /\ request.op = "list_prompts" /\ result.raised = "None"

\* C29: get_prompt called with the prompt name that list_prompts advertises
\* for an agent loads that agent, never another one and never none, and
\* list_prompts advertises no prompt name for two agents of different names
C29_PromptRoundTrip ==
    /\ PromptReplied =>
          \A i \in 1..Len(agents) :
              (/\ list_prompts.raised = "None"
               /\ list_prompts.value[i].name = request.arg)
                  => (/\ result.reply.description = "BMAD Agent"
                      /\ result.loaded = Get(agents[i], "name", None))
    /\ PromptsListed =>
          \A i, j \in 1..Len(agents) :
              Get(agents[i], "name", None) # Get(agents[j], "name", None)
                  => result.value[i].name # result.value[j].name

\* C30: read_file reads no file outside the root, whatever the other
\* process replaces between the containment check and the open
C30_NoReadOutsideRootUnderChange ==
    ReadReplied => \A f \in opened : InsideRoot(f)

====
